---- MODULE Spec2Model ----
(***************************************************************************)
(* Classroom-reservation backend: the relational store (buildings,         *)
(* departments, classrooms, users, requests and the two association        *)
(* tables), the domain services that write it, and the authorization       *)
(* checks that read it.  Every table is a sequence of rows; the primary    *)
(* key of a row is its index, as the store hands out serial ids and no     *)
(* row is ever deleted.                                                    *)
(***************************************************************************)
EXTENDS Integers, Sequences, FiniteSets, TLC

VARIABLES
    buildings,      \* building_table: rows [name, address]
    departments,    \* department_table: rows [full_name, code_name, manager_id]
    classrooms,     \* classroom_table: rows [name, floor, is_private, building_id, department_id, manager_id]
    users,          \* user_table: rows [first_name, last_name, login, registration_date, is_admin, department_id]
    requests,       \* request_table: rows [start_date, end_date, registration_date, is_approved, author_id, classroom_id]
    user_occupied_classroom_association,   \* set of <<user_id, classroom_id>>
    user_request_association,              \* set of <<user_id, request_id>>
    inflight,       \* the create_reservation_request call that is between two commits,
                    \* or the HTTP request a route is handling
    last            \* the outcome of the latest call: what it returned or raised

store == <<buildings, departments, classrooms, users, requests,
           user_occupied_classroom_association, user_request_association>>

vars == <<buildings, departments, classrooms, users, requests,
          user_occupied_classroom_association, user_request_association,
          inflight, last>>

-----------------------------------------------------------------------------
(* Bounds of the model.                                                    *)

MaxBuildings == 3
MaxUsers == 2
MaxReqUsers == 2
MaxReqClassrooms == 1
MaxReqRequests == 2
MaxDate == 2
MaxConcRequests == 2
MaxStoreRows == 1
MaxFrameClassrooms == 2
MaxFrameUsers == 2
MaxFindRows == 2
MaxTripRows == 2
MaxRouteUsers == 2
MaxRouteRows == 1
MaxDeptDepartments == 2
MaxDeptUsers == 2
MaxRaceUsers == 2
MaxPutUsers == 2

MaxAuthUsers == 2
MaxAuthDepartments == 1
MaxAuthClassrooms == 2
MaxAuthRequests == 1

-----------------------------------------------------------------------------
(* Python values.                                                          *)

\* Python's None (and SQL NULL) where an integer id is expected.
None == 0 - 1

\* Python's None where a string is expected.
NoneStr == "<None>"

\* Truthiness of an optional integer: None and 0 are falsy.
\* len(None): the validate_* methods call len on their argument.
NoLen == "object of type 'NoneType' has no len()"

TruthyInt(x) == x # None /\ x # 0

\* Truthiness of an optional string: None and "" are falsy.
TruthyStr(s) == s # NoneStr /\ s # ""

\* Truthiness of an optional boolean, given as "None", "False" or "True".
TruthyBool(b) == b = "True"

\* Truthiness of an optional list: None (here: the empty list) and [] are falsy.
TruthyList(l) == Len(l) > 0

\* A value a call returns, and an exception a call raises.
Return(v) == [kind |-> "return", val |-> v, msg |-> ""]
Raise(exc, m) == [kind |-> exc, val |-> FALSE, msg |-> m]

\* Python objects, compared with ==: an int equals an int of the same value, a
\* model instance equals only itself, and an int never equals a model instance.
IntObj(n) == [type |-> "int", v |-> n]
ClassroomObj(c) == [type |-> "Classroom", v |-> c]
PyEq(a, b) == a.type = b.type /\ a.v = b.v
PyIn(x, list) == \E o \in list : PyEq(x, o)

\* Query.first() of a filter on a column that is not unique: the store returns the
\* matching rows in no stated order, so any matching row may come first.
First(matching) == IF matching = {} THEN {None} ELSE matching

\* No call is between two of its commits and no HTTP request is being handled.
Idle == [pc |-> "idle", request_id |-> None, author_id |-> None, classroom_id |-> None,
         requesting_users |-> {}, login |-> NoneStr, route |-> "", id |-> None,
         payload |-> <<>>]

\* The outcome of a call, as the route sees it: what it returned or raised, and the
\* arguments it was given. before is the row an update method loaded by id.
Outcome(op, id, r, args) ==
    [op |-> op, id |-> id, kind |-> r.kind, val |-> r.val, msg |-> r.msg, args |-> args,
     before |-> None, returned |-> None]
UpdateOutcome(op, id, r, args, loaded) == [Outcome(op, id, r, args) EXCEPT !.before = loaded]
\* The outcome of a create method: returned is the serialization it returns.
CreateOutcome(op, id, args, serialized) == [Outcome(op, id, Return(TRUE), args) EXCEPT !.returned = serialized]

-----------------------------------------------------------------------------
(* Strings the callers supply.                                             *)

Str51 == "xxxxxxxxxxxxxxxxxxxxxxxxxxxxxxxxxxxxxxxxxxxxxxxxxxx"
Str101 == "yyyyyyyyyyyyyyyyyyyyyyyyyyyyyyyyyyyyyyyyyyyyyyyyyyyyyyyyyyyyyyyyyyyyyyyyyyyyyyyyyyyyyyyyyyyyyyyyyyyyy"

-----------------------------------------------------------------------------
(* Lookups by primary key: Query.filter_by(id=id).first().                  *)

get_building_by_id(id) == IF id \in 1..Len(buildings) THEN id ELSE None
get_department_by_id(id) == IF id \in 1..Len(departments) THEN id ELSE None
get_classroom_by_id(id) == IF id \in 1..Len(classrooms) THEN id ELSE None
get_user_by_id(id) == IF id \in 1..Len(users) THEN id ELSE None
get_request_by_id(id) == IF id \in 1..Len(requests) THEN id ELSE None

\* login is a unique column: at most one row matches.
get_user_by_login(login) ==
    IF \E u \in 1..Len(users) : users[u].login = login
    THEN CHOOSE u \in 1..Len(users) : users[u].login = login
    ELSE None

-----------------------------------------------------------------------------
(* Buildings.                                                              *)

\* BuildingRepository.serialize_building(building)
serialize_building(building_id) ==
    [id |-> building_id,
     name |-> buildings[building_id].name,
     address |-> buildings[building_id].address,
     classrooms |-> {c \in 1..Len(classrooms) : classrooms[c].building_id = building_id}]

\* DepartmentRepository.serialize_department(department)
serialize_department(department_id) ==
    [id |-> department_id,
     full_name |-> departments[department_id].full_name,
     code_name |-> departments[department_id].code_name,
     manager |-> departments[department_id].manager_id,
     users |-> {u \in 1..Len(users) : users[u].department_id = department_id},
     classrooms |-> {c \in 1..Len(classrooms) : classrooms[c].department_id = department_id}]

\* The same serializer with occupants joined through the other association table.
serialize_classroom_wrong_secondary(classroom_id) ==
    [id |-> classroom_id,
     name |-> classrooms[classroom_id].name,
     floor |-> classrooms[classroom_id].floor,
     is_private |-> classrooms[classroom_id].is_private,
     building |-> classrooms[classroom_id].building_id,
     department |-> classrooms[classroom_id].department_id,
     manager |-> classrooms[classroom_id].manager_id,
     occupants |-> {p[1] : p \in {q \in user_request_association :
                                      q[2] = classroom_id}},
     requests |-> {r \in 1..Len(requests) : requests[r].classroom_id = classroom_id}]

\* ClassroomRepository.serialize_classroom(classroom)
serialize_classroom(classroom_id) ==
    [id |-> classroom_id,
     name |-> classrooms[classroom_id].name,
     floor |-> classrooms[classroom_id].floor,
     is_private |-> classrooms[classroom_id].is_private,
     building |-> classrooms[classroom_id].building_id,
     department |-> classrooms[classroom_id].department_id,
     manager |-> classrooms[classroom_id].manager_id,
     occupants |-> {p[1] : p \in {q \in user_occupied_classroom_association :
                                      q[2] = classroom_id}},
     requests |-> {r \in 1..Len(requests) : requests[r].classroom_id = classroom_id}]

\* UserRepository.serialize_user(user)
serialize_user(user_id) ==
    [id |-> user_id,
     first_name |-> users[user_id].first_name,
     last_name |-> users[user_id].last_name,
     login |-> users[user_id].login,
     registration_date |-> users[user_id].registration_date,
     is_admin |-> users[user_id].is_admin,
     department |-> users[user_id].department_id,
     managed_classrooms |-> {c \in 1..Len(classrooms) : classrooms[c].manager_id = user_id},
     occupied_classrooms |-> {p[2] : p \in {q \in user_occupied_classroom_association :
                                                q[1] = user_id}},
     authored_requests |-> {r \in 1..Len(requests) : requests[r].author_id = user_id},
     requests |-> {p[2] : p \in {q \in user_request_association : q[1] = user_id}}]

\* RequestRepository.serialize_request(request)
serialize_request(request_id) ==
    [id |-> request_id,
     start_date |-> requests[request_id].start_date,
     end_date |-> requests[request_id].end_date,
     registration_date |-> requests[request_id].registration_date,
     is_approved |-> requests[request_id].is_approved,
     author |-> requests[request_id].author_id,
     requesting_users |-> {p[1] : p \in {q \in user_request_association : q[2] = request_id}},
     classroom |-> requests[request_id].classroom_id]

Building_validate_name(name) == 0 < Len(name) /\ Len(name) <= 50
Building_validate_address(address) == 0 < Len(address) /\ Len(address) <= 100

get_building_by_name(name) ==
    First({b \in 1..Len(buildings) : buildings[b].name = name})
get_building_by_address(address) ==
    First({b \in 1..Len(buildings) : buildings[b].address = address})

\* BuildingService.create_building(name, address)
create_building(name, address) ==
    IF name = NoneStr
    THEN /\ last' = Outcome("create_building", None, Raise("TypeError", NoLen), <<name, address>>)
         /\ UNCHANGED <<store, inflight>>
    ELSE IF ~Building_validate_name(name)
    THEN /\ last' = Outcome("create_building", None,
                        Raise("ValueError", "Invalid name length"), <<name, address>>)
         /\ UNCHANGED <<store, inflight>>
    ELSE IF address = NoneStr
    THEN /\ last' = Outcome("create_building", None, Raise("TypeError", NoLen), <<name, address>>)
         /\ UNCHANGED <<store, inflight>>
    ELSE IF ~Building_validate_address(address)
    THEN /\ last' = Outcome("create_building", None,
                        Raise("ValueError", "Invalid address length"), <<name, address>>)
         /\ UNCHANGED <<store, inflight>>
    ELSE \E existing_building_by_name \in get_building_by_name(name),
            existing_building_by_address \in get_building_by_address(address) :
         IF /\ existing_building_by_name # None
            /\ existing_building_by_address # None
            /\ existing_building_by_name = existing_building_by_address
         THEN /\ last' = Outcome("create_building", None,
                             Raise("ValueError", "already exists"), <<name, address>>)
              /\ UNCHANGED <<store, inflight>>
         ELSE /\ buildings' = Append(buildings, [name |-> name, address |-> address])
              /\ UNCHANGED <<departments, classrooms, users, requests,
                             user_occupied_classroom_association,
                             user_request_association, inflight>>
              /\ last' = CreateOutcome("create_building", Len(buildings) + 1, <<name, address>>,
                                   serialize_building(Len(buildings))')

\* One "if new_x: validate or resolve; set" block of an update method. acc is
\* [row, res]: the row as committed so far and the call's result so far. Every
\* setter commits, so the row keeps what the earlier blocks set when a later
\* block raises.
Step(acc, supplied, bad, exc, row) ==
    IF acc.res.kind # "return" \/ ~supplied THEN acc
    ELSE IF bad THEN [acc EXCEPT !.res = exc]
    ELSE [acc EXCEPT !.row = row]

\* BuildingService.update_building(building_id, new_name, new_address)
update_building(building_id, new_name, new_address) ==
    IF get_building_by_id(building_id) = None
    THEN /\ last' = Outcome("update_building", building_id,
                        Raise("ValueError", "No building found"), <<new_name, new_address>>)
         /\ UNCHANGED <<store, inflight>>
    ELSE LET a0 == [row |-> buildings[building_id], res |-> Return(TRUE)]
             a1 == Step(a0, TruthyStr(new_name), ~Building_validate_name(new_name),
                        Raise("ValueError", "Invalid name length"),
                        [a0.row EXCEPT !.name = new_name])
             a2 == Step(a1, TruthyStr(new_address), ~Building_validate_address(new_address),
                        Raise("ValueError", "Invalid address length"),
                        [a1.row EXCEPT !.address = new_address])
         IN /\ buildings' = [buildings EXCEPT ![building_id] = a2.row]
            /\ last' = UpdateOutcome("update_building", building_id, a2.res, <<new_name, new_address>>, a0.row)
            /\ UNCHANGED <<departments, classrooms, users, requests,
                           user_occupied_classroom_association,
                           user_request_association, inflight>>

-----------------------------------------------------------------------------
(* Departments.                                                            *)

Department_validate_full_name(full_name) == 0 < Len(full_name) /\ Len(full_name) <= 100
Department_validate_code_name(code_name) == 0 < Len(code_name) /\ Len(code_name) <= 50

get_department_by_full_name(full_name) ==
    First({d \in 1..Len(departments) : departments[d].full_name = full_name})
get_department_by_code_name(code_name) ==
    First({d \in 1..Len(departments) : departments[d].code_name = code_name})

\* DepartmentService.create_department(full_name, code_name)
create_department(full_name, code_name) ==
    IF full_name = NoneStr
    THEN /\ last' = Outcome("create_department", None, Raise("TypeError", NoLen),
                        <<full_name, code_name>>)
         /\ UNCHANGED <<store, inflight>>
    ELSE IF ~Department_validate_full_name(full_name)
    THEN /\ last' = Outcome("create_department", None,
                        Raise("ValueError", "Invalid full name length"), <<full_name, code_name>>)
         /\ UNCHANGED <<store, inflight>>
    ELSE IF code_name = NoneStr
    THEN /\ last' = Outcome("create_department", None, Raise("TypeError", NoLen),
                        <<full_name, code_name>>)
         /\ UNCHANGED <<store, inflight>>
    ELSE IF ~Department_validate_code_name(code_name)
    THEN /\ last' = Outcome("create_department", None,
                        Raise("ValueError", "Invalid code name length"), <<full_name, code_name>>)
         /\ UNCHANGED <<store, inflight>>
    ELSE \E existing_department_by_full_name \in get_department_by_full_name(full_name),
            existing_department_by_code_name \in get_department_by_code_name(code_name) :
         IF /\ existing_department_by_full_name # None
            /\ existing_department_by_code_name # None
            /\ existing_department_by_full_name = existing_department_by_code_name
         THEN /\ last' = Outcome("create_department", None,
                             Raise("ValueError", "already exists"), <<full_name, code_name>>)
              /\ UNCHANGED <<store, inflight>>
         ELSE /\ departments' = Append(departments,
                     [full_name |-> full_name, code_name |-> code_name, manager_id |-> None])
              /\ UNCHANGED <<buildings, classrooms, users, requests,
                             user_occupied_classroom_association,
                             user_request_association, inflight>>
              /\ last' = CreateOutcome("create_department", Len(departments) + 1,
                                   <<full_name, code_name>>,
                                   serialize_department(Len(departments))')

\* The same column declared without unique=True.
manager_id_not_unique(department_id, manager_id) == FALSE

\* department_table.manager_id is declared unique: the commit of set_manager_id
\* fails when another department already holds the value.
manager_id_taken(department_id, manager_id) ==
    \E d \in 1..Len(departments) : d # department_id /\ departments[d].manager_id = manager_id

\* The same method without the lookup of the new manager.
update_department_no_lookup(department_id, new_full_name, new_code_name, new_manager_id) ==
    IF get_department_by_id(department_id) = None
    THEN /\ last' = Outcome("update_department", department_id,
                        Raise("ValueError", "No department found"),
                        <<new_full_name, new_code_name, new_manager_id>>)
         /\ UNCHANGED <<store, inflight>>
    ELSE LET a0 == [row |-> departments[department_id], res |-> Return(TRUE)]
             a1 == Step(a0, TruthyStr(new_full_name),
                        ~Department_validate_full_name(new_full_name),
                        Raise("ValueError", "Invalid full name length"),
                        [a0.row EXCEPT !.full_name = new_full_name])
             a2 == Step(a1, TruthyStr(new_code_name),
                        ~Department_validate_code_name(new_code_name),
                        Raise("ValueError", "Invalid code name length"),
                        [a1.row EXCEPT !.code_name = new_code_name])
             a3 == Step(a2, TruthyInt(new_manager_id),
                        FALSE,
                        Raise("ValueError", "No manager found"),
                        a2.row)
             a4 == Step(a3, TruthyInt(new_manager_id),
                        manager_id_taken(department_id, new_manager_id),
                        Raise("IntegrityError", "duplicate manager_id"),
                        [a3.row EXCEPT !.manager_id = new_manager_id])
         IN /\ departments' = [departments EXCEPT ![department_id] = a4.row]
            /\ last' = UpdateOutcome("update_department", department_id, a4.res,
                           <<new_full_name, new_code_name, new_manager_id>>, a0.row)
            /\ UNCHANGED <<buildings, classrooms, users, requests,
                           user_occupied_classroom_association,
                           user_request_association, inflight>>

\* DepartmentService.update_department(department_id, new_full_name, new_code_name,
\* new_manager_id)
update_department(department_id, new_full_name, new_code_name, new_manager_id) ==
    IF get_department_by_id(department_id) = None
    THEN /\ last' = Outcome("update_department", department_id,
                        Raise("ValueError", "No department found"),
                        <<new_full_name, new_code_name, new_manager_id>>)
         /\ UNCHANGED <<store, inflight>>
    ELSE LET a0 == [row |-> departments[department_id], res |-> Return(TRUE)]
             a1 == Step(a0, TruthyStr(new_full_name),
                        ~Department_validate_full_name(new_full_name),
                        Raise("ValueError", "Invalid full name length"),
                        [a0.row EXCEPT !.full_name = new_full_name])
             a2 == Step(a1, TruthyStr(new_code_name),
                        ~Department_validate_code_name(new_code_name),
                        Raise("ValueError", "Invalid code name length"),
                        [a1.row EXCEPT !.code_name = new_code_name])
             a3 == Step(a2, TruthyInt(new_manager_id),
                        get_user_by_id(new_manager_id) = None,
                        Raise("ValueError", "No manager found"),
                        a2.row)
             a4 == Step(a3, TruthyInt(new_manager_id),
                        manager_id_taken(department_id, new_manager_id),
                        Raise("IntegrityError", "duplicate manager_id"),
                        [a3.row EXCEPT !.manager_id = new_manager_id])
         IN /\ departments' = [departments EXCEPT ![department_id] = a4.row]
            /\ last' = UpdateOutcome("update_department", department_id, a4.res,
                           <<new_full_name, new_code_name, new_manager_id>>, a0.row)
            /\ UNCHANGED <<buildings, classrooms, users, requests,
                           user_occupied_classroom_association,
                           user_request_association, inflight>>

-----------------------------------------------------------------------------
(* Classrooms.                                                             *)

Classroom_validate_name(name) == 0 < Len(name) /\ Len(name) <= 50

\* ClassroomService.create_classroom(name, floor, is_private)
create_classroom(name, floor, is_private) ==
    IF name = NoneStr
    THEN /\ last' = Outcome("create_classroom", None, Raise("TypeError", NoLen), <<name>>)
         /\ UNCHANGED <<store, inflight>>
    ELSE IF ~Classroom_validate_name(name)
    THEN /\ last' = Outcome("create_classroom", None,
                        Raise("ValueError", "Invalid name length"), <<name>>)
         /\ UNCHANGED <<store, inflight>>
    ELSE /\ classrooms' = Append(classrooms,
                [name |-> name, floor |-> floor, is_private |-> is_private,
                 building_id |-> None, department_id |-> None, manager_id |-> None])
         /\ UNCHANGED <<buildings, departments, users, requests,
                        user_occupied_classroom_association,
                        user_request_association, inflight>>
         /\ last' = CreateOutcome("create_classroom", Len(classrooms) + 1, <<name>>,
                              serialize_classroom(Len(classrooms))')

\* The same method writing is_private whenever a value, true or false, is supplied.
update_classroom_applies_false(classroom_id, new_name, new_building_id, new_department_id, new_manager_id, new_is_private) ==
    IF get_classroom_by_id(classroom_id) = None
    THEN /\ last' = Outcome("update_classroom", classroom_id,
                        Raise("ValueError", "No classroom found"), <<new_name>>)
         /\ UNCHANGED <<store, inflight>>
    ELSE LET a0 == [row |-> classrooms[classroom_id], res |-> Return(TRUE)]
             a1 == Step(a0, TruthyStr(new_name), ~Classroom_validate_name(new_name),
                        Raise("ValueError", "Invalid name length"),
                        [a0.row EXCEPT !.name = new_name])
             a2 == Step(a1, TruthyInt(new_building_id),
                        get_building_by_id(new_building_id) = None,
                        Raise("ValueError", "No building found"),
                        [a1.row EXCEPT !.building_id = new_building_id])
             a3 == Step(a2, TruthyInt(new_department_id),
                        get_department_by_id(new_department_id) = None,
                        Raise("ValueError", "No department found"),
                        [a2.row EXCEPT !.department_id = new_department_id])
             a4 == Step(a3, TruthyInt(new_manager_id),
                        get_user_by_id(new_manager_id) = None,
                        Raise("ValueError", "No manager found"),
                        [a3.row EXCEPT !.manager_id = new_manager_id])
             a5 == Step(a4, new_is_private # "None", FALSE,
                        Return(TRUE),
                        [a4.row EXCEPT !.is_private = TruthyBool(new_is_private)])
         IN /\ classrooms' = [classrooms EXCEPT ![classroom_id] = a5.row]
            /\ last' = UpdateOutcome("update_classroom", classroom_id, a5.res,
                                     <<new_name, new_building_id, new_department_id,
                                       new_manager_id, new_is_private>>, a0.row)
            /\ UNCHANGED <<buildings, departments, users, requests,
                           user_occupied_classroom_association,
                           user_request_association, inflight>>

\* ClassroomService.update_classroom(classroom_id, new_name, new_building_id,
\* new_department_id, new_manager_id, new_is_private)
ClassroomService_update_classroom(classroom_id, new_name, new_building_id, new_department_id, new_manager_id, new_is_private) ==
    IF get_classroom_by_id(classroom_id) = None
    THEN /\ last' = Outcome("update_classroom", classroom_id,
                        Raise("ValueError", "No classroom found"), <<new_name>>)
         /\ UNCHANGED store
    ELSE LET a0 == [row |-> classrooms[classroom_id], res |-> Return(TRUE)]
             a1 == Step(a0, TruthyStr(new_name), ~Classroom_validate_name(new_name),
                        Raise("ValueError", "Invalid name length"),
                        [a0.row EXCEPT !.name = new_name])
             a2 == Step(a1, TruthyInt(new_building_id),
                        get_building_by_id(new_building_id) = None,
                        Raise("ValueError", "No building found"),
                        [a1.row EXCEPT !.building_id = new_building_id])
             a3 == Step(a2, TruthyInt(new_department_id),
                        get_department_by_id(new_department_id) = None,
                        Raise("ValueError", "No department found"),
                        [a2.row EXCEPT !.department_id = new_department_id])
             a4 == Step(a3, TruthyInt(new_manager_id),
                        get_user_by_id(new_manager_id) = None,
                        Raise("ValueError", "No manager found"),
                        [a3.row EXCEPT !.manager_id = new_manager_id])
             a5 == Step(a4, TruthyBool(new_is_private), FALSE,
                        Return(TRUE),
                        [a4.row EXCEPT !.is_private = TRUE])
         IN /\ classrooms' = [classrooms EXCEPT ![classroom_id] = a5.row]
            /\ last' = UpdateOutcome("update_classroom", classroom_id, a5.res,
                                     <<new_name, new_building_id, new_department_id,
                                       new_manager_id, new_is_private>>, a0.row)
            /\ UNCHANGED <<buildings, departments, users, requests,
                           user_occupied_classroom_association,
                           user_request_association>>

update_classroom(classroom_id, new_name, new_building_id, new_department_id, new_manager_id, new_is_private) ==
    /\ ClassroomService_update_classroom(classroom_id, new_name, new_building_id,
                                         new_department_id, new_manager_id, new_is_private)
    /\ UNCHANGED inflight

-----------------------------------------------------------------------------
(* Users.                                                                  *)

User_validate_name(name) == 0 < Len(name) /\ Len(name) <= 100
User_validate_login(login) == 0 < Len(login) /\ Len(login) <= 50

\* user_table.first_name and last_name are String(50) columns: the store refuses a
\* longer value when the row is written, whatever validate_name allowed.
fits_name_column(name) == Len(name) <= 50

\* The same method without the lookup of an existing user by login.
create_user_no_lookup(now, first_name, last_name, login, is_admin) ==
    LET raise(exc, m) ==
            /\ last' = Outcome("create_user", None, Raise(exc, m), <<first_name, last_name, login>>)
            /\ UNCHANGED <<store, inflight>>
    IN  IF first_name = NoneStr THEN raise("TypeError", NoLen)
        ELSE IF ~User_validate_name(first_name) THEN raise("ValueError", "Invalid first name length")
        ELSE IF last_name = NoneStr THEN raise("TypeError", NoLen)
        ELSE IF ~User_validate_name(last_name) THEN raise("ValueError", "Invalid last name length")
        ELSE IF login = NoneStr THEN raise("TypeError", NoLen)
        ELSE IF ~User_validate_login(login) THEN raise("ValueError", "Invalid login length")
        ELSE IF ~fits_name_column(first_name) \/ ~fits_name_column(last_name)
        THEN raise("DataError", "value too long")
        ELSE /\ users' = Append(users,
                    [first_name |-> first_name, last_name |-> last_name, login |-> login,
                     registration_date |-> now, is_admin |-> is_admin,
                     department_id |-> None])
             /\ UNCHANGED <<buildings, departments, classrooms, requests,
                            user_occupied_classroom_association,
                            user_request_association, inflight>>
             /\ last' = CreateOutcome("create_user", Len(users) + 1,
                                  <<first_name, last_name, login>>,
                                  serialize_user(Len(users))')

\* UserService.create_user(first_name, last_name, login, is_admin); now is the
\* value of datetime.now() in UserRepository.create_user.
create_user(now, first_name, last_name, login, is_admin) ==
    LET raise(exc, m) ==
            /\ last' = Outcome("create_user", None, Raise(exc, m), <<first_name, last_name, login>>)
            /\ UNCHANGED <<store, inflight>>
    IN  IF first_name = NoneStr THEN raise("TypeError", NoLen)
        ELSE IF ~User_validate_name(first_name) THEN raise("ValueError", "Invalid first name length")
        ELSE IF last_name = NoneStr THEN raise("TypeError", NoLen)
        ELSE IF ~User_validate_name(last_name) THEN raise("ValueError", "Invalid last name length")
        ELSE IF login = NoneStr THEN raise("TypeError", NoLen)
        ELSE IF ~User_validate_login(login) THEN raise("ValueError", "Invalid login length")
        ELSE IF get_user_by_login(login) # None THEN raise("ValueError", "already in use")
        ELSE IF ~fits_name_column(first_name) \/ ~fits_name_column(last_name)
        THEN raise("DataError", "value too long")
        ELSE /\ users' = Append(users,
                    [first_name |-> first_name, last_name |-> last_name, login |-> login,
                     registration_date |-> now, is_admin |-> is_admin,
                     department_id |-> None])
             /\ UNCHANGED <<buildings, departments, classrooms, requests,
                            user_occupied_classroom_association,
                            user_request_association, inflight>>
             /\ last' = CreateOutcome("create_user", Len(users) + 1,
                                  <<first_name, last_name, login>>,
                                  serialize_user(Len(users))')

\* The same method as two steps, for a call that runs beside another one.
\* begin_create_user runs UserService.create_user up to and including the
\* lookup by login (user_service.py lines 70-85); the call then waits to commit.
begin_create_user(now, first_name, last_name, login, is_admin) ==
    LET raise(exc, m) ==
            /\ last' = Outcome("create_user", None, Raise(exc, m), <<first_name, last_name, login>>)
            /\ UNCHANGED <<store, inflight>>
    IN  /\ inflight.pc = "idle"
        /\ IF first_name = NoneStr THEN raise("TypeError", NoLen)
           ELSE IF ~User_validate_name(first_name) THEN raise("ValueError", "Invalid first name length")
           ELSE IF last_name = NoneStr THEN raise("TypeError", NoLen)
           ELSE IF ~User_validate_name(last_name) THEN raise("ValueError", "Invalid last name length")
           ELSE IF login = NoneStr THEN raise("TypeError", NoLen)
           ELSE IF ~User_validate_login(login) THEN raise("ValueError", "Invalid login length")
           ELSE IF get_user_by_login(login) # None THEN raise("ValueError", "already in use")
           ELSE /\ inflight' = [Idle EXCEPT !.pc = "user", !.login = login,
                                            !.payload = <<now, first_name, last_name, is_admin>>]
                /\ UNCHANGED <<store, last>>

\* UserRepository.create_user (user_service.py line 86): User.__init__ commits the
\* row. user_table.login is declared unique, so the commit fails when a user
\* with the login has been committed since the lookup.
commit_create_user ==
    LET now == inflight.payload[1]
        first_name == inflight.payload[2]
        last_name == inflight.payload[3]
        is_admin == inflight.payload[4]
        login == inflight.login
        raise(exc, m) ==
            /\ last' = Outcome("create_user", None, Raise(exc, m), <<first_name, last_name, login>>)
            /\ UNCHANGED store
    IN  /\ inflight.pc = "user"
        /\ inflight' = Idle
        /\ IF ~fits_name_column(first_name) \/ ~fits_name_column(last_name)
           THEN raise("DataError", "value too long")
           ELSE IF \E u \in 1..Len(users) : users[u].login = login
           THEN raise("IntegrityError", "duplicate login")
           ELSE /\ users' = Append(users,
                       [first_name |-> first_name, last_name |-> last_name, login |-> login,
                        registration_date |-> now, is_admin |-> is_admin,
                        department_id |-> None])
                /\ UNCHANGED <<buildings, departments, classrooms, requests,
                               user_occupied_classroom_association, user_request_association>>
                /\ last' = CreateOutcome("create_user", Len(users) + 1,
                                     <<first_name, last_name, login>>,
                                     serialize_user(Len(users))')

\* The same method replacing the occupied classrooms also when none are supplied.
update_user_clears_occupied(user_id, new_first_name, new_last_name, new_department_id, new_occupied_classroom_ids) ==
    IF get_user_by_id(user_id) = None
    THEN /\ last' = Outcome("update_user", user_id,
                        Raise("ValueError", "No user found"),
                        <<new_first_name, new_last_name, new_department_id,
                          new_occupied_classroom_ids>>)
         /\ UNCHANGED <<store, inflight>>
    ELSE LET a0 == [row |-> users[user_id], res |-> Return(TRUE)]
             a1 == Step(a0, TruthyStr(new_first_name), ~User_validate_name(new_first_name),
                        Raise("ValueError", "Invalid first name length"), a0.row)
             a2 == Step(a1, TruthyStr(new_first_name), ~fits_name_column(new_first_name),
                        Raise("DataError", "value too long"),
                        [a1.row EXCEPT !.first_name = new_first_name])
             a3 == Step(a2, TruthyStr(new_last_name), ~User_validate_name(new_last_name),
                        Raise("ValueError", "Invalid last name length"), a2.row)
             a4 == Step(a3, TruthyStr(new_last_name), ~fits_name_column(new_last_name),
                        Raise("DataError", "value too long"),
                        [a3.row EXCEPT !.last_name = new_last_name])
             a5 == Step(a4, TruthyInt(new_department_id),
                        get_department_by_id(new_department_id) = None,
                        Raise("ValueError", "No department found"),
                        [a4.row EXCEPT !.department_id = new_department_id])
             a6 == Step(a5, TruthyList(new_occupied_classroom_ids),
                        \E i \in 1..Len(new_occupied_classroom_ids) :
                            get_classroom_by_id(new_occupied_classroom_ids[i]) = None,
                        Raise("ValueError", "No classroom found"), a5.row)
         IN /\ users' = [users EXCEPT ![user_id] = a6.row]
            /\ user_occupied_classroom_association' =
                   IF a6.res.kind = "return"
                   THEN {p \in user_occupied_classroom_association : p[1] # user_id}
                        \cup {<<user_id, new_occupied_classroom_ids[i]>> :
                                  i \in 1..Len(new_occupied_classroom_ids)}
                   ELSE user_occupied_classroom_association
            /\ last' = UpdateOutcome("update_user", user_id, a6.res,
                                     <<new_first_name, new_last_name, new_department_id,
                                       new_occupied_classroom_ids>>, a0.row)
            /\ UNCHANGED <<buildings, departments, classrooms, requests,
                           user_request_association, inflight>>

\* The same method clearing is_admin when it assigns the department.
update_user_resets_admin(user_id, new_first_name, new_last_name, new_department_id, new_occupied_classroom_ids) ==
    IF get_user_by_id(user_id) = None
    THEN /\ last' = Outcome("update_user", user_id,
                        Raise("ValueError", "No user found"),
                        <<new_first_name, new_last_name, new_department_id,
                          new_occupied_classroom_ids>>)
         /\ UNCHANGED <<store, inflight>>
    ELSE LET a0 == [row |-> users[user_id], res |-> Return(TRUE)]
             a1 == Step(a0, TruthyStr(new_first_name), ~User_validate_name(new_first_name),
                        Raise("ValueError", "Invalid first name length"), a0.row)
             a2 == Step(a1, TruthyStr(new_first_name), ~fits_name_column(new_first_name),
                        Raise("DataError", "value too long"),
                        [a1.row EXCEPT !.first_name = new_first_name])
             a3 == Step(a2, TruthyStr(new_last_name), ~User_validate_name(new_last_name),
                        Raise("ValueError", "Invalid last name length"), a2.row)
             a4 == Step(a3, TruthyStr(new_last_name), ~fits_name_column(new_last_name),
                        Raise("DataError", "value too long"),
                        [a3.row EXCEPT !.last_name = new_last_name])
             a5 == Step(a4, TruthyInt(new_department_id),
                        get_department_by_id(new_department_id) = None,
                        Raise("ValueError", "No department found"),
                        [a4.row EXCEPT !.department_id = new_department_id, !.is_admin = FALSE])
             a6 == Step(a5, TruthyList(new_occupied_classroom_ids),
                        \E i \in 1..Len(new_occupied_classroom_ids) :
                            get_classroom_by_id(new_occupied_classroom_ids[i]) = None,
                        Raise("ValueError", "No classroom found"), a5.row)
         IN /\ users' = [users EXCEPT ![user_id] = a6.row]
            /\ user_occupied_classroom_association' =
                   IF a6.res.kind = "return" /\ TruthyList(new_occupied_classroom_ids)
                   THEN {p \in user_occupied_classroom_association : p[1] # user_id}
                        \cup {<<user_id, new_occupied_classroom_ids[i]>> :
                                  i \in 1..Len(new_occupied_classroom_ids)}
                   ELSE user_occupied_classroom_association
            /\ last' = UpdateOutcome("update_user", user_id, a6.res,
                                     <<new_first_name, new_last_name, new_department_id,
                                       new_occupied_classroom_ids>>, a0.row)
            /\ UNCHANGED <<buildings, departments, classrooms, requests,
                           user_request_association, inflight>>

\* UserService.update_user(user_id, new_first_name, new_last_name,
\* new_department_id, new_occupied_classroom_ids)
update_user(user_id, new_first_name, new_last_name, new_department_id, new_occupied_classroom_ids) ==
    IF get_user_by_id(user_id) = None
    THEN /\ last' = Outcome("update_user", user_id,
                        Raise("ValueError", "No user found"),
                        <<new_first_name, new_last_name, new_department_id,
                          new_occupied_classroom_ids>>)
         /\ UNCHANGED <<store, inflight>>
    ELSE LET a0 == [row |-> users[user_id], res |-> Return(TRUE)]
             a1 == Step(a0, TruthyStr(new_first_name), ~User_validate_name(new_first_name),
                        Raise("ValueError", "Invalid first name length"), a0.row)
             a2 == Step(a1, TruthyStr(new_first_name), ~fits_name_column(new_first_name),
                        Raise("DataError", "value too long"),
                        [a1.row EXCEPT !.first_name = new_first_name])
             a3 == Step(a2, TruthyStr(new_last_name), ~User_validate_name(new_last_name),
                        Raise("ValueError", "Invalid last name length"), a2.row)
             a4 == Step(a3, TruthyStr(new_last_name), ~fits_name_column(new_last_name),
                        Raise("DataError", "value too long"),
                        [a3.row EXCEPT !.last_name = new_last_name])
             a5 == Step(a4, TruthyInt(new_department_id),
                        get_department_by_id(new_department_id) = None,
                        Raise("ValueError", "No department found"),
                        [a4.row EXCEPT !.department_id = new_department_id])
             a6 == Step(a5, TruthyList(new_occupied_classroom_ids),
                        \E i \in 1..Len(new_occupied_classroom_ids) :
                            get_classroom_by_id(new_occupied_classroom_ids[i]) = None,
                        Raise("ValueError", "No classroom found"), a5.row)
         IN /\ users' = [users EXCEPT ![user_id] = a6.row]
            /\ user_occupied_classroom_association' =
                   IF a6.res.kind = "return" /\ TruthyList(new_occupied_classroom_ids)
                   THEN {p \in user_occupied_classroom_association : p[1] # user_id}
                        \cup {<<user_id, new_occupied_classroom_ids[i]>> :
                                  i \in 1..Len(new_occupied_classroom_ids)}
                   ELSE user_occupied_classroom_association
            /\ last' = UpdateOutcome("update_user", user_id, a6.res,
                                     <<new_first_name, new_last_name, new_department_id,
                                       new_occupied_classroom_ids>>, a0.row)
            /\ UNCHANGED <<buildings, departments, classrooms, requests,
                           user_request_association, inflight>>

-----------------------------------------------------------------------------
(* Requests.                                                               *)

\* The same comparison, not strict.
validate_dates_not_strict(start_date, end_date) == start_date <= end_date

\* RequestRepository.validate_dates(start_date, end_date)
validate_dates(start_date, end_date) == start_date < end_date

\* The same constructor call with is_approved=True.
create_request_approved(now, start_date, end_date) ==
    [start_date |-> start_date, end_date |-> end_date, registration_date |-> now,
     is_approved |-> TRUE, author_id |-> None, classroom_id |-> None]

\* RequestRepository.create_request(start_date, end_date): Request.__init__
\* commits the new row with no author, no classroom and no requesting users.
create_request(now, start_date, end_date) ==
    [start_date |-> start_date, end_date |-> end_date, registration_date |-> now,
     is_approved |-> FALSE, author_id |-> None, classroom_id |-> None]

\* RequestRepository.update_request_author / update_request_classroom /
\* update_request_approval: each sets one column and commits.
update_request_author(request, new_author) == [request EXCEPT !.author_id = new_author]
update_request_classroom(request, new_classroom) == [request EXCEPT !.classroom_id = new_classroom]
update_request_approval(request, is_approved) == [request EXCEPT !.is_approved = is_approved]

\* RequestRepository.update_requesting_users(request, users): the rows of the
\* association table of request_id are replaced by one row per user.
update_requesting_users(request_id, new_requesting_users) ==
    {p \in user_request_association : p[2] # request_id}
    \cup {<<u, request_id>> : u \in new_requesting_users}

\* The users the logins of a list resolve to, and whether each login resolves.
resolve_logins(logins) == {get_user_by_login(logins[i]) : i \in 1..Len(logins)}
all_logins_resolve(logins) == \A i \in 1..Len(logins) : get_user_by_login(logins[i]) # None

\* The same checks without the loop that resolves the requesting-user logins.
create_reservation_request_checks_without_logins(start_date, end_date, author_id, classroom_id, requesting_user_logins) ==
    IF ~validate_dates(start_date, end_date) THEN Raise("ValueError", "Invalid dates")
    ELSE IF get_user_by_id(author_id) = None THEN Raise("ValueError", "No user found with author ID")
    ELSE IF get_classroom_by_id(classroom_id) = None THEN Raise("ValueError", "No classroom found")
    ELSE Return(TRUE)

\* The checks of RequestService.create_reservation_request that come before its
\* first write: the result is Return(TRUE) when all of them pass.
create_reservation_request_checks(start_date, end_date, author_id, classroom_id, requesting_user_logins) ==
    IF ~validate_dates(start_date, end_date) THEN Raise("ValueError", "Invalid dates")
    ELSE IF get_user_by_id(author_id) = None THEN Raise("ValueError", "No user found with author ID")
    ELSE IF get_classroom_by_id(classroom_id) = None THEN Raise("ValueError", "No classroom found")
    ELSE IF ~all_logins_resolve(requesting_user_logins)
    THEN Raise("ValueError", "No user found with login")
    ELSE Return(TRUE)

\* RequestService.create_reservation_request(start_date, end_date, author_id,
\* classroom_id, requesting_user_logins), run with no other call in between.
create_reservation_request(now, start_date, end_date, author_id, classroom_id, requesting_user_logins) ==
    LET checks == create_reservation_request_checks(start_date, end_date, author_id,
                                                    classroom_id, requesting_user_logins)
        new_request == create_request(now, start_date, end_date)
        with_author == update_request_author(new_request, author_id)
        with_classroom == update_request_classroom(with_author, classroom_id)
        new_id == Len(requests) + 1
    IN  IF checks.kind # "return"
           THEN /\ last' = Outcome("create_reservation_request", None, checks,
                               <<start_date, end_date, author_id, classroom_id,
                                 requesting_user_logins>>)
                /\ UNCHANGED <<store, inflight>>
           ELSE /\ requests' = Append(requests, with_classroom)
                /\ user_request_association' =
                       update_requesting_users(new_id, resolve_logins(requesting_user_logins))
                /\ UNCHANGED <<buildings, departments, classrooms, users,
                               user_occupied_classroom_association, inflight>>
                /\ last' = CreateOutcome("create_reservation_request", new_id,
                                     <<start_date, end_date, author_id, classroom_id,
                                       requesting_user_logins>>,
                                     serialize_request(Len(requests))')

\* The same method as the store shows it to other calls: RequestRepository.
\* create_request commits the new row, and update_request_author,
\* update_request_classroom and update_requesting_users each commit one more
\* write. begin_create_reservation_request runs the method up to the first commit.
begin_create_reservation_request(now, start_date, end_date, author_id, classroom_id, requesting_user_logins) ==
    LET checks == create_reservation_request_checks(start_date, end_date, author_id,
                                                    classroom_id, requesting_user_logins)
    IN  /\ inflight.pc = "idle"
        /\ IF checks.kind # "return"
           THEN /\ last' = Outcome("create_reservation_request", None, checks,
                               <<start_date, end_date, author_id, classroom_id,
                                 requesting_user_logins>>)
                /\ UNCHANGED <<store, inflight>>
           ELSE /\ requests' = Append(requests, create_request(now, start_date, end_date))
                /\ inflight' = [Idle EXCEPT !.pc = "author", !.request_id = Len(requests) + 1,
                                !.author_id = author_id, !.classroom_id = classroom_id,
                                !.requesting_users = resolve_logins(requesting_user_logins)]
                /\ UNCHANGED <<buildings, departments, classrooms, users,
                               user_occupied_classroom_association,
                               user_request_association, last>>

\* The same step leaving the author unset.
commit_request_author_skipped ==
    /\ inflight.pc = "author"
    /\ inflight' = [inflight EXCEPT !.pc = "classroom"]
    /\ UNCHANGED <<store, last>>

\* request_service.py line 103: update_request_author(new_request, author) commits.
commit_request_author ==
    /\ inflight.pc = "author"
    /\ requests' = [requests EXCEPT ![inflight.request_id] =
                       update_request_author(requests[inflight.request_id], inflight.author_id)]
    /\ inflight' = [inflight EXCEPT !.pc = "classroom"]
    /\ UNCHANGED <<buildings, departments, classrooms, users,
                   user_occupied_classroom_association, user_request_association, last>>

\* request_service.py line 104: update_request_classroom(new_request, classroom) commits.
commit_request_classroom ==
    /\ inflight.pc = "classroom"
    /\ requests' = [requests EXCEPT ![inflight.request_id] =
                       update_request_classroom(requests[inflight.request_id],
                                                inflight.classroom_id)]
    /\ inflight' = [inflight EXCEPT !.pc = "users"]
    /\ UNCHANGED <<buildings, departments, classrooms, users,
                   user_occupied_classroom_association, user_request_association, last>>

\* request_service.py lines 105-107: update_requesting_users(new_request,
\* requesting_users) commits, and the method returns the serialized request.
commit_requesting_users ==
    /\ inflight.pc = "users"
    /\ user_request_association' =
           update_requesting_users(inflight.request_id, inflight.requesting_users)
    /\ inflight' = Idle
    /\ last' = CreateOutcome("create_reservation_request", inflight.request_id,
                         <<requests[inflight.request_id].start_date,
                           requests[inflight.request_id].end_date,
                           inflight.author_id, inflight.classroom_id, inflight.requesting_users>>,
                         [serialize_request(inflight.request_id)
                             EXCEPT !.requesting_users = inflight.requesting_users])
    /\ UNCHANGED <<buildings, departments, classrooms, users, requests,
                   user_occupied_classroom_association>>

\* The same method without the lookup of the new classroom.
update_reservation_request_no_lookup(request_id, new_author_id, new_classroom_id, new_requesting_user_logins) ==
    IF get_request_by_id(request_id) = None
    THEN /\ last' = Outcome("update_reservation_request", request_id,
                        Raise("ValueError", "No request found"), <<>>)
         /\ UNCHANGED <<store, inflight>>
    ELSE LET a0 == [row |-> requests[request_id], res |-> Return(TRUE)]
             a1 == Step(a0, TruthyInt(new_author_id),
                        get_user_by_id(new_author_id) = None,
                        Raise("ValueError", "No user found"),
                        update_request_author(a0.row, new_author_id))
             a2 == Step(a1, TruthyInt(new_classroom_id),
                        FALSE,
                        Raise("ValueError", "No classroom found"),
                        update_request_classroom(a1.row, new_classroom_id))
             a3 == Step(a2, TruthyList(new_requesting_user_logins),
                        ~all_logins_resolve(new_requesting_user_logins),
                        Raise("ValueError", "No user found with login"), a2.row)
         IN /\ requests' = [requests EXCEPT ![request_id] = a3.row]
            /\ user_request_association' =
                   IF a3.res.kind = "return" /\ TruthyList(new_requesting_user_logins)
                   THEN update_requesting_users(request_id,
                                                resolve_logins(new_requesting_user_logins))
                   ELSE user_request_association
            /\ last' = UpdateOutcome("update_reservation_request", request_id, a3.res,
                                     <<new_author_id, new_classroom_id,
                                       new_requesting_user_logins>>, a0.row)
            /\ UNCHANGED <<buildings, departments, classrooms, users,
                           user_occupied_classroom_association, inflight>>

\* RequestService.update_reservation_request(request_id, new_author_id,
\* new_classroom_id, new_requesting_user_logins)
update_reservation_request(request_id, new_author_id, new_classroom_id, new_requesting_user_logins) ==
    IF get_request_by_id(request_id) = None
    THEN /\ last' = Outcome("update_reservation_request", request_id,
                        Raise("ValueError", "No request found"), <<>>)
         /\ UNCHANGED <<store, inflight>>
    ELSE LET a0 == [row |-> requests[request_id], res |-> Return(TRUE)]
             a1 == Step(a0, TruthyInt(new_author_id),
                        get_user_by_id(new_author_id) = None,
                        Raise("ValueError", "No user found"),
                        update_request_author(a0.row, new_author_id))
             a2 == Step(a1, TruthyInt(new_classroom_id),
                        get_classroom_by_id(new_classroom_id) = None,
                        Raise("ValueError", "No classroom found"),
                        update_request_classroom(a1.row, new_classroom_id))
             a3 == Step(a2, TruthyList(new_requesting_user_logins),
                        ~all_logins_resolve(new_requesting_user_logins),
                        Raise("ValueError", "No user found with login"), a2.row)
         IN /\ requests' = [requests EXCEPT ![request_id] = a3.row]
            /\ user_request_association' =
                   IF a3.res.kind = "return" /\ TruthyList(new_requesting_user_logins)
                   THEN update_requesting_users(request_id,
                                                resolve_logins(new_requesting_user_logins))
                   ELSE user_request_association
            /\ last' = UpdateOutcome("update_reservation_request", request_id, a3.res,
                                     <<new_author_id, new_classroom_id,
                                       new_requesting_user_logins>>, a0.row)
            /\ UNCHANGED <<buildings, departments, classrooms, users,
                           user_occupied_classroom_association, inflight>>

\* The same method without the lookup of the approving manager.
approve_reservation_request_any_manager(request_id, manager_id) ==
    IF get_request_by_id(request_id) = None
    THEN /\ last' = Outcome("approve_reservation_request", request_id,
                        Raise("ValueError", "No request found"), <<manager_id>>)
         /\ UNCHANGED <<store, inflight>>
    ELSE /\ requests' = [requests EXCEPT
                            ![request_id] = update_request_approval(requests[request_id], TRUE)]
         /\ last' = Outcome("approve_reservation_request", request_id, Return(TRUE),
                        <<manager_id>>)
         /\ UNCHANGED <<buildings, departments, classrooms, users,
                        user_occupied_classroom_association,
                        user_request_association, inflight>>

\* RequestService.approve_reservation_request(request_id, manager_id)
approve_reservation_request(request_id, manager_id) ==
    IF get_request_by_id(request_id) = None
    THEN /\ last' = Outcome("approve_reservation_request", request_id,
                        Raise("ValueError", "No request found"), <<manager_id>>)
         /\ UNCHANGED <<store, inflight>>
    ELSE IF get_user_by_id(manager_id) = None
    THEN /\ last' = Outcome("approve_reservation_request", request_id,
                        Raise("ValueError", "No manager found"), <<manager_id>>)
         /\ UNCHANGED <<store, inflight>>
    ELSE /\ requests' = [requests EXCEPT
                            ![request_id] = update_request_approval(requests[request_id], TRUE)]
         /\ last' = Outcome("approve_reservation_request", request_id, Return(TRUE),
                        <<manager_id>>)
         /\ UNCHANGED <<buildings, departments, classrooms, users,
                        user_occupied_classroom_association,
                        user_request_association, inflight>>

\* RequestService.find_request(request_id): reads the store as it is committed.
find_request(request_id) ==
    /\ IF get_request_by_id(request_id) = None
       THEN last' = Outcome("find_request", request_id,
                        Raise("ValueError", "No request found"), <<>>)
       ELSE last' = Outcome("find_request", request_id, Return(TRUE),
                        <<serialize_request(request_id)>>)
    /\ UNCHANGED <<store, inflight>>

\* BuildingService.find_building(building_id)
find_building(building_id) ==
    /\ IF get_building_by_id(building_id) = None
       THEN last' = Outcome("find_building", building_id,
                        Raise("ValueError", "No building found"), <<>>)
       ELSE last' = Outcome("find_building", building_id, Return(TRUE),
                        <<serialize_building(building_id)>>)
    /\ UNCHANGED <<store, inflight>>

\* DepartmentService.find_department(department_id)
find_department(department_id) ==
    /\ IF get_department_by_id(department_id) = None
       THEN last' = Outcome("find_department", department_id,
                        Raise("ValueError", "No department found"), <<>>)
       ELSE last' = Outcome("find_department", department_id, Return(TRUE),
                        <<serialize_department(department_id)>>)
    /\ UNCHANGED <<store, inflight>>

\* ClassroomService.find_classroom(classroom_id)
find_classroom(classroom_id) ==
    /\ IF get_classroom_by_id(classroom_id) = None
       THEN last' = Outcome("find_classroom", classroom_id,
                        Raise("ValueError", "No classroom found"), <<>>)
       ELSE last' = Outcome("find_classroom", classroom_id, Return(TRUE),
                        <<serialize_classroom(classroom_id)>>)
    /\ UNCHANGED <<store, inflight>>

\* The same method loading the row before the one asked for.
find_user_previous_row(user_id) ==
    /\ IF get_user_by_id(user_id - 1) = None
       THEN last' = Outcome("find_user", user_id, Raise("ValueError", "No user found"), <<>>)
       ELSE last' = Outcome("find_user", user_id, Return(TRUE), <<serialize_user(user_id - 1)>>)
    /\ UNCHANGED <<store, inflight>>

\* UserService.find_user(user_id)
find_user(user_id) ==
    /\ IF get_user_by_id(user_id) = None
       THEN last' = Outcome("find_user", user_id, Raise("ValueError", "No user found"), <<>>)
       ELSE last' = Outcome("find_user", user_id, Return(TRUE), <<serialize_user(user_id)>>)
    /\ UNCHANGED <<store, inflight>>

\* What a find_all_* method gives for a table of n rows: the error when the
\* query returns no row, the serialization of every row otherwise.
FoundAll(op, n, message, serialized) ==
    IF n = 0
    THEN Outcome(op, None, Raise("ValueError", message), <<>>)
    ELSE Outcome(op, None, Return(TRUE), <<serialized>>)

\* BuildingService.find_all_buildings()
find_all_buildings ==
    /\ last' = FoundAll("find_all_buildings", Len(buildings), "No buildings found in the database.",
                        {serialize_building(b) : b \in 1..Len(buildings)})
    /\ UNCHANGED <<store, inflight>>

\* DepartmentService.find_all_departments()
find_all_departments ==
    /\ last' = FoundAll("find_all_departments", Len(departments), "No departments found in the database.",
                        {serialize_department(d) : d \in 1..Len(departments)})
    /\ UNCHANGED <<store, inflight>>

\* ClassroomService.find_all_classrooms()
find_all_classrooms ==
    /\ last' = FoundAll("find_all_classrooms", Len(classrooms), "No classrooms found in the database.",
                        {serialize_classroom(c) : c \in 1..Len(classrooms)})
    /\ UNCHANGED <<store, inflight>>

\* UserService.find_all_users()
find_all_users ==
    /\ last' = FoundAll("find_all_users", Len(users), "No users found in the database.",
                        {serialize_user(u) : u \in 1..Len(users)})
    /\ UNCHANGED <<store, inflight>>

\* The same method returning an empty list for an empty table.
find_all_requests_empty_list ==
    /\ last' = Outcome("find_all_requests", None, Return(TRUE),
                       <<{serialize_request(r) : r \in 1..Len(requests)}>>)
    /\ UNCHANGED <<store, inflight>>

\* RequestService.find_all_requests()
find_all_requests ==
    /\ last' = FoundAll("find_all_requests", Len(requests), "No requests found in the database.",
                        {serialize_request(r) : r \in 1..Len(requests)})
    /\ UNCHANGED <<store, inflight>>

-----------------------------------------------------------------------------
(* Authorization checks: each reads the committed store and changes nothing. *)

\* User.get_managed_classrooms(): the Classroom instances whose manager is the user.
get_managed_classrooms(user) ==
    {ClassroomObj(c) : c \in {k \in 1..Len(classrooms) : classrooms[k].manager_id = user}}

\* User.get_occupied_classrooms(): the Classroom instances the user occupies.
get_occupied_classrooms(user) ==
    {ClassroomObj(p[2]) : p \in {q \in user_occupied_classroom_association : q[1] = user}}

\* AuthenticationService.is_user_admin(login)
is_user_admin(login) ==
    LET user == get_user_by_login(login)
    IN  IF user = None THEN Raise("ValueError", "User with such login does not exist.")
        ELSE IF ~users[user].is_admin
        THEN Raise("ValueError", "Access denied. User is not an administrator.")
        ELSE Return(TRUE)

\* AuthenticationService.is_user_authenticated(login)
is_user_authenticated(login) ==
    IF get_user_by_login(login) = None
    THEN Raise("ValueError", "User with such login does not exist.")
    ELSE Return(TRUE)

\* AuthenticationService.is_user_classroom_occupant(login, classroom_id): the
\* integer classroom_id is looked up in a list of Classroom instances.
is_user_classroom_occupant(login, classroom_id) ==
    LET current_user == get_user_by_login(login)
    IN  IF current_user = None THEN Raise("ValueError", "Invalid login.")
        ELSE Return(PyIn(IntObj(classroom_id), get_occupied_classrooms(current_user)))

\* AuthenticationService.is_user_department_occupant(login, department_id)
is_user_department_occupant(login, department_id) ==
    LET current_user == get_user_by_login(login)
    IN  IF current_user = None THEN Raise("ValueError", "Invalid login.")
        ELSE Return(users[current_user].department_id = department_id)

\* AuthenticationService.is_user_department_manager(login, department_id)
is_user_department_manager(login, department_id) ==
    LET current_user == get_user_by_login(login)
        department == get_department_by_id(department_id)
    IN  IF current_user = None THEN Raise("ValueError", "Invalid login.")
        ELSE IF department = None THEN Raise("ValueError", "Department does not exist.")
        ELSE Return(departments[department].manager_id = current_user)

\* AuthenticationService.is_user_classroom_manager(login, classroom_id): the
\* integer classroom_id is looked up in a list of Classroom instances.
is_user_classroom_manager(login, classroom_id) ==
    LET current_user == get_user_by_login(login)
    IN  IF current_user = None THEN Raise("ValueError", "Invalid login.")
        ELSE Return(PyIn(IntObj(classroom_id), get_managed_classrooms(current_user)))

\* The same check reading the classroom's own manager instead of the manager of the
\* classroom's department.
is_user_manager_of_department_by_classroom_wrong_manager(login, classroom_id) ==
    LET current_user == get_user_by_login(login)
        classroom == get_classroom_by_id(classroom_id)
        department == get_department_by_id(classrooms[classroom].department_id)
    IN  IF current_user = None THEN Raise("ValueError", "Invalid login.")
        ELSE IF classroom = None THEN Raise("ValueError", "Classroom does not exist.")
        ELSE IF department = None THEN Raise("ValueError", "Department does not exist.")
        ELSE Return(classrooms[classroom].manager_id = current_user)

\* AuthenticationService.is_user_manager_of_department_by_classroom(login, classroom_id)
is_user_manager_of_department_by_classroom(login, classroom_id) ==
    LET current_user == get_user_by_login(login)
        classroom == get_classroom_by_id(classroom_id)
        department == get_department_by_id(classrooms[classroom].department_id)
    IN  IF current_user = None THEN Raise("ValueError", "Invalid login.")
        ELSE IF classroom = None THEN Raise("ValueError", "Classroom does not exist.")
        ELSE IF department = None THEN Raise("ValueError", "Department does not exist.")
        ELSE Return(departments[department].manager_id = current_user)

\* The same check reading the department of the caller instead of the department
\* of the user in question.
is_user_manager_of_another_user_department_own(manager_login, user_id) ==
    LET potential_manager == get_user_by_login(manager_login)
        user_in_question == get_user_by_id(user_id)
        department_of_user_in_question ==
            get_department_by_id(users[potential_manager].department_id)
    IN  IF potential_manager = None
        THEN Raise("ValueError", "Manager with such login does not exist.")
        ELSE IF user_in_question = None
        THEN Raise("ValueError", "User with such ID does not exist.")
        ELSE IF department_of_user_in_question = None
        THEN Raise("ValueError", "Department for the given user does not exist.")
        ELSE Return(departments[department_of_user_in_question].manager_id = potential_manager)

\* AuthenticationService.is_user_manager_of_another_user_department(manager_login, user_id)
is_user_manager_of_another_user_department(manager_login, user_id) ==
    LET potential_manager == get_user_by_login(manager_login)
        user_in_question == get_user_by_id(user_id)
        department_of_user_in_question ==
            get_department_by_id(users[user_in_question].department_id)
    IN  IF potential_manager = None
        THEN Raise("ValueError", "Manager with such login does not exist.")
        ELSE IF user_in_question = None
        THEN Raise("ValueError", "User with such ID does not exist.")
        ELSE IF department_of_user_in_question = None
        THEN Raise("ValueError", "Department for the given user does not exist.")
        ELSE Return(departments[department_of_user_in_question].manager_id = potential_manager)

\* AuthenticationService.is_user_classroom_manager_in_request(login, request_id)
is_user_classroom_manager_in_request(login, request_id) ==
    LET manager_user == get_user_by_login(login)
        request == get_request_by_id(request_id)
    IN  IF manager_user = None THEN Raise("ValueError", "Invalid login.")
        ELSE IF request = None THEN Raise("ValueError", "Request does not exist.")
        ELSE is_user_classroom_manager(login, requests[request].classroom_id)

\* AuthenticationService.is_user_department_manager_in_request(login, request_id):
\* the last line hands the department id of the request's classroom to a check
\* that takes a classroom id.
is_user_department_manager_in_request(login, request_id) ==
    LET manager_user == get_user_by_login(login)
        request == get_request_by_id(request_id)
        classroom == get_classroom_by_id(requests[request].classroom_id)
        department_id == classrooms[classroom].department_id
    IN  IF manager_user = None THEN Raise("ValueError", "Invalid login.")
        ELSE IF request = None THEN Raise("ValueError", "Request does not exist.")
        ELSE IF classroom = None THEN Raise("ValueError", "Classroom does not exist.")
        ELSE is_user_manager_of_department_by_classroom(login, department_id)

\* "try: if check: return True / except ValueError: pass": whether the block
\* returns True. A False result and a ValueError both fall through to the next block.
Grants(check) == check.kind = "return" /\ check.val

\* An exception of a check that "except ValueError" does not catch leaves the
\* composite check as it is.
Escapes(check) == check.kind \notin {"return", "ValueError"}

AccessDeniedDepartment ==
    "Access denied. User is neither an administrator nor a manager of the specified department."
AccessDeniedRequest ==
    "Access denied. User does not have the necessary administrative or managerial rights for the request."

\* AuthenticationService.is_user_admin_or_manager_of_department_by_classroom(login, classroom_id)
is_user_admin_or_manager_of_department_by_classroom(login, classroom_id) ==
    LET c1 == is_user_admin(login)
        c2 == is_user_manager_of_department_by_classroom(login, classroom_id)
    IN  IF Grants(c1) THEN Return(TRUE) ELSE IF Escapes(c1) THEN c1
        ELSE IF Grants(c2) THEN Return(TRUE) ELSE IF Escapes(c2) THEN c2
        ELSE Raise("ValueError", AccessDeniedDepartment)

\* The same composite check with no try/except around its second check.
is_user_admin_or_manager_of_another_user_department_unguarded(login, user_id) ==
    LET c1 == is_user_admin(login)
        c2 == is_user_manager_of_another_user_department(login, user_id)
    IN  IF Grants(c1) THEN Return(TRUE) ELSE IF Escapes(c1) THEN c1
        ELSE IF Grants(c2) THEN Return(TRUE) ELSE IF c2.kind # "return" THEN c2
        ELSE Raise("ValueError", AccessDeniedDepartment)

\* AuthenticationService.is_user_admin_or_manager_of_another_user_department(login, user_id)
is_user_admin_or_manager_of_another_user_department(login, user_id) ==
    LET c1 == is_user_admin(login)
        c2 == is_user_manager_of_another_user_department(login, user_id)
    IN  IF Grants(c1) THEN Return(TRUE) ELSE IF Escapes(c1) THEN c1
        ELSE IF Grants(c2) THEN Return(TRUE) ELSE IF Escapes(c2) THEN c2
        ELSE Raise("ValueError", AccessDeniedDepartment)

\* The same composite check looking the request up before anything else.
is_user_admin_or_manager_in_request_resolves_first(login, request_id) ==
    LET c1 == is_user_admin(login)
        c2 == is_user_classroom_manager_in_request(login, request_id)
        c3 == is_user_department_manager_in_request(login, request_id)
    IN  IF get_request_by_id(request_id) = None
        THEN Raise("ValueError", "Request does not exist.")
        ELSE IF Grants(c1) THEN Return(TRUE) ELSE IF Escapes(c1) THEN c1
        ELSE IF Grants(c2) THEN Return(TRUE) ELSE IF Escapes(c2) THEN c2
        ELSE IF Grants(c3) THEN Return(TRUE) ELSE IF Escapes(c3) THEN c3
        ELSE Raise("ValueError", AccessDeniedRequest)

\* AuthenticationService.is_user_admin_or_manager_in_request(login, request_id)
is_user_admin_or_manager_in_request(login, request_id) ==
    LET c1 == is_user_admin(login)
        c2 == is_user_classroom_manager_in_request(login, request_id)
        c3 == is_user_department_manager_in_request(login, request_id)
    IN  IF Grants(c1) THEN Return(TRUE) ELSE IF Escapes(c1) THEN c1
        ELSE IF Grants(c2) THEN Return(TRUE) ELSE IF Escapes(c2) THEN c2
        ELSE IF Grants(c3) THEN Return(TRUE) ELSE IF Escapes(c3) THEN c3
        ELSE Raise("ValueError", AccessDeniedRequest)

\* A route evaluating one of the composite checks for the caller login.
check_department_by_classroom(login, classroom_id) ==
    /\ last' = Outcome("is_user_admin_or_manager_of_department_by_classroom", classroom_id,
                   is_user_admin_or_manager_of_department_by_classroom(login, classroom_id),
                   <<login>>)
    /\ UNCHANGED <<store, inflight>>

check_another_user_department(login, user_id) ==
    /\ last' = Outcome("is_user_admin_or_manager_of_another_user_department", user_id,
                   is_user_admin_or_manager_of_another_user_department(login, user_id),
                   <<login>>)
    /\ UNCHANGED <<store, inflight>>

check_in_request(login, request_id) ==
    /\ last' = Outcome("is_user_admin_or_manager_in_request", request_id,
                   is_user_admin_or_manager_in_request(login, request_id),
                   <<login>>)
    /\ UNCHANGED <<store, inflight>>

\* The checks of AuthenticationService by name, and what the named check gives
\* for a login and an id against the store as it is.
CheckNames ==
    {"is_user_authenticated", "is_user_classroom_occupant", "is_user_classroom_manager",
     "is_user_department_occupant", "is_user_department_manager",
     "is_user_manager_of_department_by_classroom",
     "is_user_manager_of_another_user_department", "is_user_classroom_manager_in_request",
     "is_user_department_manager_in_request", "is_user_admin",
     "is_user_admin_or_manager_of_department_by_classroom",
     "is_user_admin_or_manager_of_another_user_department",
     "is_user_admin_or_manager_in_request"}

Check(name, login, id) ==
    CASE name = "is_user_authenticated" -> is_user_authenticated(login)
      [] name = "is_user_classroom_occupant" -> is_user_classroom_occupant(login, id)
      [] name = "is_user_classroom_manager" -> is_user_classroom_manager(login, id)
      [] name = "is_user_department_occupant" -> is_user_department_occupant(login, id)
      [] name = "is_user_department_manager" -> is_user_department_manager(login, id)
      [] name = "is_user_manager_of_department_by_classroom"
             -> is_user_manager_of_department_by_classroom(login, id)
      [] name = "is_user_manager_of_another_user_department"
             -> is_user_manager_of_another_user_department(login, id)
      [] name = "is_user_classroom_manager_in_request"
             -> is_user_classroom_manager_in_request(login, id)
      [] name = "is_user_department_manager_in_request"
             -> is_user_department_manager_in_request(login, id)
      [] name = "is_user_admin" -> is_user_admin(login)
      [] name = "is_user_admin_or_manager_of_department_by_classroom"
             -> is_user_admin_or_manager_of_department_by_classroom(login, id)
      [] name = "is_user_admin_or_manager_of_another_user_department"
             -> is_user_admin_or_manager_of_another_user_department(login, id)
      [] name = "is_user_admin_or_manager_in_request"
             -> is_user_admin_or_manager_in_request(login, id)

\* The same call answering from the previous call of the same check, if the
\* latest call was one.
evaluate_check_cached(name, login, id) ==
    /\ last' = IF last.op = name
               THEN [last EXCEPT !.id = id, !.args = <<login>>]
               ELSE Outcome(name, id, Check(name, login, id), <<login>>)
    /\ UNCHANGED <<store, inflight>>

\* A call of one check of AuthenticationService: queries only.
evaluate_check(name, login, id) ==
    /\ last' = Outcome(name, id, Check(name, login, id), <<login>>)
    /\ UNCHANGED <<store, inflight>>

-----------------------------------------------------------------------------------------------------------------------------------------------------
(* The routes. inflight is the HTTP request being handled: the JWT         *)
(* identity get_jwt_identity() gives, the route, and the id of the URL.    *)
(* The payload, request.json, is the parameter list of the handler.        *)

\* An HTTP request arrives: flask binds its identity, route and URL id.
receive(login, route, id) ==
    /\ inflight.pc \in {"idle", "received"}
    /\ inflight' = [Idle EXCEPT !.pc = "received", !.login = login, !.route = route, !.id = id]
    /\ last' = Outcome("receive", id, Return(TRUE), <<login, route>>)
    /\ UNCHANGED store

\* The request in flight is for this route and its handler has not run yet.
Routed(route) == inflight.pc = "received" /\ inflight.route = route /\ last.op = "receive"

\* The handler of the request in flight has run: last is what it returned or raised.
Handled == inflight.pc = "received" /\ last.op # "receive"

\* The first line of a handler's try block raised: the exception of the check
\* leaves the try block before the service call.
Denied(check) ==
    /\ last' = Outcome(inflight.route, inflight.id, check, <<inflight.login>>)
    /\ UNCHANGED <<store, inflight>>

\* "return x, 201" / "return x, 200" / "except ValueError as e: return {"message":
\* str(e)}, 400" of every handler; an exception the except clause does not name
\* leaves the handler, and flask answers 500.
response_status ==
    IF last.kind = "return"
    THEN IF inflight.route \in {"BuildingRoute.post", "DepartmentCreateRoute.post",
                                "ClassroomRoute.post", "UserRoute.post", "RequestRoute.post"}
         THEN 201 ELSE 200
    ELSE IF last.kind = "ValueError" THEN 400
    ELSE 500

\* UserRoute.post(): no JWT and no check.
UserRoute_post(now, first_name, last_name, login, is_admin) ==
    /\ Routed("UserRoute.post")
    /\ create_user(now, first_name, last_name, login, is_admin)

\* The same handler without the call of is_user_admin.
BuildingRoute_post_unchecked(name, address) ==
    /\ Routed("BuildingRoute.post")
    /\ create_building(name, address)

\* BuildingRoute.post()
BuildingRoute_post(name, address) ==
    /\ Routed("BuildingRoute.post")
    /\ IF is_user_admin(inflight.login).kind # "return"
       THEN Denied(is_user_admin(inflight.login))
       ELSE create_building(name, address)

\* BuildingIdRoute.put(id)
BuildingIdRoute_put(new_name, new_address) ==
    /\ Routed("BuildingIdRoute.put")
    /\ IF is_user_admin(inflight.login).kind # "return"
       THEN Denied(is_user_admin(inflight.login))
       ELSE update_building(inflight.id, new_name, new_address)

\* DepartmentCreateRoute.post()
DepartmentCreateRoute_post(full_name, code_name) ==
    /\ Routed("DepartmentCreateRoute.post")
    /\ IF is_user_admin(inflight.login).kind # "return"
       THEN Denied(is_user_admin(inflight.login))
       ELSE create_department(full_name, code_name)

\* DepartmentIdRoute.put(id)
DepartmentIdRoute_put(new_full_name, new_code_name, new_manager_id) ==
    /\ Routed("DepartmentIdRoute.put")
    /\ IF is_user_admin(inflight.login).kind # "return"
       THEN Denied(is_user_admin(inflight.login))
       ELSE update_department(inflight.id, new_full_name, new_code_name, new_manager_id)

\* ClassroomRoute.post()
ClassroomRoute_post(name, floor, is_private) ==
    /\ Routed("ClassroomRoute.post")
    /\ IF is_user_admin(inflight.login).kind # "return"
       THEN Denied(is_user_admin(inflight.login))
       ELSE create_classroom(name, floor, is_private)

\* ClassroomIdRoute.put(id)
ClassroomIdRoute_put(new_name, new_building_id, new_department_id, new_manager_id, new_is_private) ==
    LET check == is_user_admin_or_manager_of_department_by_classroom(inflight.login, inflight.id)
    IN  /\ Routed("ClassroomIdRoute.put")
        /\ IF check.kind # "return"
           THEN Denied(check)
           ELSE update_classroom(inflight.id, new_name, new_building_id, new_department_id,
                                 new_manager_id, new_is_private)

\* UserIdRoute.put(id)
UserIdRoute_put(new_first_name, new_last_name, new_department_id, new_occupied_classroom_ids) ==
    LET check == is_user_admin_or_manager_of_another_user_department(inflight.login, inflight.id)
    IN  /\ Routed("UserIdRoute.put")
        /\ IF check.kind # "return"
           THEN Denied(check)
           ELSE update_user(inflight.id, new_first_name, new_last_name, new_department_id,
                            new_occupied_classroom_ids)

\* RequestRoute.post()
RequestRoute_post(now, start_date, end_date, author_id, classroom_id, requesting_user_logins) ==
    /\ Routed("RequestRoute.post")
    /\ IF is_user_authenticated(inflight.login).kind # "return"
       THEN Denied(is_user_authenticated(inflight.login))
       ELSE create_reservation_request(now, start_date, end_date, author_id, classroom_id,
                                       requesting_user_logins)

\* RequestIdRoute.put(id)
RequestIdRoute_put(new_author_id, new_classroom_id, new_requesting_user_logins) ==
    LET check == is_user_admin_or_manager_in_request(inflight.login, inflight.id)
    IN  /\ Routed("RequestIdRoute.put")
        /\ IF check.kind # "return"
           THEN Denied(check)
           ELSE update_reservation_request(inflight.id, new_author_id, new_classroom_id,
                                           new_requesting_user_logins)

\* RequestIdApproveRoute.put(id)
RequestIdApproveRoute_put(manager_id) ==
    LET check == is_user_admin_or_manager_in_request(inflight.login, inflight.id)
    IN  /\ Routed("RequestIdApproveRoute.put")
        /\ IF check.kind # "return"
           THEN Denied(check)
           ELSE approve_reservation_request(inflight.id, manager_id)

-----
(* The state after the application and its empty database are set up.      *)

Init ==
    /\ buildings = <<>>
    /\ departments = <<>>
    /\ classrooms = <<>>
    /\ users = <<>>
    /\ requests = <<>>
    /\ user_occupied_classroom_association = {}
    /\ user_request_association = {}
    /\ inflight = Idle
    /\ last = Outcome("init", None, Return(TRUE), <<>>)

-----------------------------------------------------------------------------
(* SpecAuth: the entity graph the composite checks walk (users and their   *)
(* departments, departments and their managers, classrooms and their       *)
(* departments, requests and their classrooms), written by the services    *)
(* and read by the three composite checks.                                 *)

AuthLogins == {"alice", "bob"}
AuthUserIds == 1..MaxAuthUsers
AuthDepartmentIds == 1..MaxAuthDepartments
AuthClassroomIds == 1..MaxAuthClassrooms

\* The writes that SpecAuth and SpecAuthRequest share.
AuthWrites ==
    \/ \E login \in AuthLogins, is_admin \in BOOLEAN :
          /\ Len(users) < MaxAuthUsers
          /\ create_user(1, "Ann", "Lee", login, is_admin)
    \/ /\ Len(departments) < MaxAuthDepartments
       /\ create_department("Physics", "PHY")
    \/ /\ Len(classrooms) < MaxAuthClassrooms
       /\ create_classroom("R1", 1, FALSE)
    \/ \E department_id \in AuthDepartmentIds, new_manager_id \in AuthUserIds :
          update_department(department_id, NoneStr, NoneStr, new_manager_id)
    \/ \E classroom_id \in AuthClassroomIds :
          /\ Len(requests) < MaxAuthRequests
          /\ create_reservation_request(1, 1, 2, 1, classroom_id, <<>>)

NextAuth ==
    \/ AuthWrites
    \/ \E classroom_id \in AuthClassroomIds, new_department_id \in AuthDepartmentIds :
          update_classroom(classroom_id, NoneStr, None, new_department_id, None, "None")
    \/ \E user_id \in AuthUserIds, new_department_id \in AuthDepartmentIds :
          update_user(user_id, NoneStr, NoneStr, new_department_id, <<>>)
    \/ \E login \in AuthLogins, classroom_id \in AuthClassroomIds :
          check_department_by_classroom(login, classroom_id)
    \/ \E login \in AuthLogins, user_id \in AuthUserIds :
          check_another_user_department(login, user_id)
    \/ \E login \in AuthLogins, request_id \in 1..(MaxAuthRequests + 1) :
          check_in_request(login, request_id)

SpecAuth == Init /\ [][NextAuth]_vars

(* SpecAuthRequest: the same graph with classroom managers, read by the    *)
(* composite check of the request routes.                                  *)

NextAuthRequest ==
    \/ AuthWrites
    \/ \E classroom_id \in AuthClassroomIds, new_department_id \in {None} \cup AuthDepartmentIds,
          new_manager_id \in {None} \cup AuthUserIds :
          update_classroom(classroom_id, NoneStr, None, new_department_id, new_manager_id, "None")
    \/ \E login \in AuthLogins, request_id \in 1..(MaxAuthRequests + 1) :
          check_in_request(login, request_id)

SpecAuthRequest == Init /\ [][NextAuthRequest]_vars

-----------------------------------------------------------------------------
(* Properties of the authorization checks.                                 *)

\* Whether user is an admin, the manager of the classroom of the request, or the
\* manager of the department of that classroom, read off the store.
admin_or_manager_in_request(user, request_id) ==
    LET classroom == requests[request_id].classroom_id
        department == classrooms[classroom].department_id
    IN  \/ users[user].is_admin
        \/ classrooms[classroom].manager_id = user
        \/ /\ get_department_by_id(department) # None
           /\ departments[department].manager_id = user

\* C1: for every login of an existing user and every existing request whose
\* classroom exists, is_user_admin_or_manager_in_request returns True if the user
\* is an admin, or the manager of the request's classroom, or the manager of that
\* classroom's department, and raises the access-denied error if none of the
\* three holds.
C1_RequestCheckFollowsRelations ==
    \A login \in AuthLogins, request_id \in 1..Len(requests) :
        LET user == get_user_by_login(login)
            result == is_user_admin_or_manager_in_request(login, request_id)
        IN  (user # None /\ get_classroom_by_id(requests[request_id].classroom_id) # None)
            => IF admin_or_manager_in_request(user, request_id)
               THEN result = Return(TRUE)
               ELSE result = Raise("ValueError", AccessDeniedRequest)

\* C2: for a non-admin user A and a classroom C that has a department, the
\* composite check for classroom writes returns True in every state in which
\* that department's manager_id is A's id and raises the access-denied error in
\* every state in which it is not, so also in every state reached after
\* update_department gave the department another manager.
C2_CurrentManagerDecides ==
    \A login \in AuthLogins, classroom_id \in 1..Len(classrooms) :
        LET A == get_user_by_login(login)
            D == classrooms[classroom_id].department_id
            result == is_user_admin_or_manager_of_department_by_classroom(login, classroom_id)
        IN  (A # None /\ ~users[A].is_admin /\ D # None)
            => IF departments[D].manager_id = A
               THEN result = Return(TRUE)
               ELSE result = Raise("ValueError", AccessDeniedDepartment)

\* C2 witness: update_department has just replaced the non-admin manager A of the
\* department of a classroom, and the check now denies A for that classroom.
C2_Witness ==
    /\ last.op = "update_department"
    /\ last.kind = "return"
    /\ \E login \in AuthLogins, classroom_id \in 1..Len(classrooms) :
          LET A == get_user_by_login(login)
          IN  /\ A # None
              /\ ~users[A].is_admin
              /\ classrooms[classroom_id].department_id = last.id
              /\ last.before.manager_id = A
              /\ departments[last.id].manager_id # A
              /\ is_user_admin_or_manager_of_department_by_classroom(login, classroom_id)
                     = Raise("ValueError", AccessDeniedDepartment)

\* The ids and logins the composite checks are probed with: existing ones, ids of
\* no row, zero, None, and a login of no user.
ProbeLogins == AuthLogins \cup {"eve"}
ProbeIds == {None} \cup 0..(MaxAuthClassrooms + 1)

\* A composite check over an ordered list of checks: True when one of them
\* returns True, the one generic access-denied error otherwise.
TwoOutcomes(result, checks, generic) ==
    IF \E i \in 1..Len(checks) : Grants(checks[i])
    THEN result = Return(TRUE)
    ELSE result = Raise("ValueError", generic)

-----------------------------------------------------------------------------
(* SpecBuilding: the building service alone.                               *)

BuildingNames == {"", "Main", "Annex", Str51}
BuildingAddresses == {"", "1 Elm St", "2 Oak Ave", Str101}

NextBuilding ==
    \/ \E name \in BuildingNames, address \in BuildingAddresses :
          /\ Len(buildings) < MaxBuildings
          /\ create_building(name, address)
    \/ \E building_id \in 1..MaxBuildings, new_name \in {NoneStr, "Annex", Str51},
          new_address \in {NoneStr, "", "2 Oak Ave", Str101} :
          update_building(building_id, new_name, new_address)

SpecBuilding == Init /\ [][NextBuilding]_vars

\* C4: a create_building call with a valid name and address fails with the
\* conflict error whenever a building that existed before the call has both that
\* name and that address, and succeeds whenever none has.
C4_CreateBuildingConflict ==
    (/\ last.op = "create_building"
     /\ Building_validate_name(last.args[1])
     /\ Building_validate_address(last.args[2]))
    => IF \E b \in 1..Len(buildings) :
              /\ b # last.id
              /\ buildings[b].name = last.args[1]
              /\ buildings[b].address = last.args[2]
       THEN last.kind = "ValueError" /\ last.msg = "already exists"
       ELSE last.kind = "return"

-----------------------------------------------------------------------------
(* SpecUser: the user service alone.                                       *)

UserFirstNames == {"", "Ann", Str51, Str101}
UserLastNames == {"Lee", Str101}
UserLogins == {"", "alice", "bob", "carol", Str51}

NextUser ==
    \/ \E first_name \in UserFirstNames, last_name \in UserLastNames,
          login \in UserLogins, is_admin \in BOOLEAN :
          /\ Len(users) < MaxUsers
          /\ create_user(1, first_name, last_name, login, is_admin)
    \/ \E user_id \in 1..(MaxUsers + 1), new_first_name \in {NoneStr, "Bea", Str51},
          new_last_name \in {NoneStr, "May", Str101} :
          update_user(user_id, new_first_name, new_last_name, None, <<>>)

SpecUser == Init /\ [][NextUser]_vars

\* Whether some user row of the current state has the login.
login_in_use(login) == \E u \in 1..Len(users) : users[u].login = login

-----------------------------------------------------------------------------
(* SpecRequest: the request service, with the users and classrooms its     *)
(* calls refer to.                                                         *)

Dates == 1..MaxDate
RequestLoginLists == {<<>>, <<"bob", "alice">>, <<"alice", "zed">>}

NextRequest ==
    \/ \E login \in {"alice", "bob"} :
          /\ Len(users) < MaxReqUsers
          /\ create_user(1, "Ann", "Lee", login, FALSE)
    \/ /\ Len(classrooms) < MaxReqClassrooms
       /\ create_classroom("R1", 1, FALSE)
    \/ \E start_date \in Dates, end_date \in Dates, author_id \in {None} \cup 1..MaxReqUsers,
          classroom_id \in 1..(MaxReqClassrooms + 1), logins \in RequestLoginLists :
          /\ Len(requests) < MaxReqRequests
          /\ create_reservation_request(5, start_date, end_date, author_id, classroom_id, logins)
    \/ \E request_id \in 1..(MaxReqRequests + 1), new_author_id \in {None, 0} \cup 1..(MaxReqUsers + 1),
          new_classroom_id \in {None} \cup 1..(MaxReqClassrooms + 1),
          logins \in RequestLoginLists :
          update_reservation_request(request_id, new_author_id, new_classroom_id, logins)
    \/ \E request_id \in 1..(MaxReqRequests + 1), manager_id \in {None} \cup 1..(MaxReqUsers + 1) :
          approve_reservation_request(request_id, manager_id)

SpecRequest == Init /\ [][NextRequest]_vars

\* C6: create_reservation_request rejects every call with start_date >= end_date,
\* and every stored request has start_date < end_date.
C6_StartBeforeEnd ==
    /\ \A r \in 1..Len(requests) : requests[r].start_date < requests[r].end_date
    /\ (last.op = "create_reservation_request" /\ last.args[1] >= last.args[2])
       => (last.kind = "ValueError" /\ last.msg = "Invalid dates" /\ last.id = None)

\* C6 witness: a request is stored and a call with start_date >= end_date has just
\* been rejected.
C6_Witness ==
    /\ last.op = "create_reservation_request"
    /\ last.args[1] >= last.args[2]
    /\ last.msg = "Invalid dates"
    /\ Len(requests) >= 1

\* C7: a request is added with is_approved = false, and a step that changes the
\* is_approved of a stored request is approve_reservation_request setting it true.
C7_ApprovalOnlyByApprove ==
    [][\A r \in 1..Len(requests') :
          IF r > Len(requests)
          THEN requests'[r].is_approved = FALSE
          ELSE requests'[r].is_approved # requests[r].is_approved
               => /\ last'.op = "approve_reservation_request"
                  /\ requests'[r].is_approved = TRUE]_vars

\* C7 witness: an approved request has just been updated and is still approved.
C7_Witness ==
    /\ last.op = "update_reservation_request"
    /\ last.kind = "return"
    /\ last.before.is_approved
    /\ requests[last.id].is_approved
    /\ requests[last.id].author_id # last.before.author_id

-----------------------------------------------------------------------------
(* SpecUpdate: one row of every table and the five update methods, called  *)
(* with values that pass and values that fail.                             *)

UpdateOps == {"update_building", "update_department", "update_classroom", "update_user",
              "update_reservation_request"}

NextUpdate ==
    \/ /\ Len(buildings) < 1
       /\ create_building("Main", "1 Elm St")
    \/ /\ Len(departments) < 1
       /\ create_department("Physics", "PHY")
    \/ /\ Len(classrooms) < 1
       /\ create_classroom("R1", 1, FALSE)
    \/ /\ Len(users) < 1
       /\ create_user(1, "Ann", "Lee", "alice", FALSE)
    \/ /\ Len(requests) < 1
       /\ create_reservation_request(5, 1, 2, 1, 1, <<>>)
    \/ \E building_id \in 1..2, new_name \in {NoneStr, "Annex"}, new_address \in {NoneStr, Str101} :
          update_building(building_id, new_name, new_address)
    \/ \E department_id \in 1..2, new_full_name \in {NoneStr, "Maths"},
          new_code_name \in {NoneStr, Str51}, new_manager_id \in {None, 2} :
          update_department(department_id, new_full_name, new_code_name, new_manager_id)
    \/ \E classroom_id \in 1..2, new_name \in {NoneStr, "R2"}, new_building_id \in {None, 1, 2},
          new_manager_id \in {None, 2}, new_is_private \in {"None", "True"} :
          update_classroom(classroom_id, new_name, new_building_id, None, new_manager_id,
                           new_is_private)
    \/ \E user_id \in 1..2, new_first_name \in {NoneStr, "Bea"}, new_last_name \in {NoneStr, Str101},
          new_department_id \in {None, 2}, new_occupied_classroom_ids \in {<<>>, <<1, 2>>} :
          update_user(user_id, new_first_name, new_last_name, new_department_id,
                      new_occupied_classroom_ids)
    \/ \E request_id \in 1..2, new_author_id \in {None, 1}, new_classroom_id \in {None, 2},
          logins \in {<<>>, <<"alice">>, <<"zed">>} :
          update_reservation_request(request_id, new_author_id, new_classroom_id, logins)

SpecUpdate == Init /\ [][NextUpdate]_vars

\* C9: an update method that raises a validation or not-found error leaves the
\* store as it was before the call: no field supplied earlier in the same call
\* has been written.
C9_FailedUpdateChangesNothing ==
    [][(last'.op \in UpdateOps /\ last'.kind = "ValueError") => UNCHANGED store]_vars

-----------------------------------------------------------------------------
(* SpecConcurrent: one create_reservation_request call taken commit by     *)
(* commit, while other callers read the requests.                          *)

NextConcurrent ==
    \/ /\ Len(users) < 1
       /\ create_user(1, "Ann", "Lee", "alice", FALSE)
    \/ /\ Len(classrooms) < 1
       /\ create_classroom("R1", 1, FALSE)
    \/ \E start_date \in Dates, end_date \in Dates, logins \in {<<>>, <<"alice">>} :
          /\ Len(requests) < MaxConcRequests
          /\ begin_create_reservation_request(5, start_date, end_date, 1, 1, logins)
    \/ commit_request_author
    \/ commit_request_classroom
    \/ commit_requesting_users
    \/ \E request_id \in 1..(MaxConcRequests + 1) : find_request(request_id)
    \/ \E request_id \in 1..(MaxConcRequests + 1) : check_in_request("alice", request_id)

SpecConcurrent == Init /\ [][NextConcurrent]_vars

\* find_request has just returned the request that a create_reservation_request
\* call is still writing.
ObservedInflight ==
    /\ last.op = "find_request"
    /\ last.kind = "return"
    /\ inflight.pc # "idle"
    /\ last.id = inflight.request_id

-----------------------------------------------------------------------------
(* SpecStore: every table with the create and update methods of its        *)
(* service, called with ids of rows, ids of no row, and the falsy values   *)
(* None, 0, "" and False.                                                  *)

StoreIds == {None} \cup 0..(MaxStoreRows + 1)

\* The argument lists update_classroom is called with: nothing supplied, one
\* field supplied, falsy values supplied, ids of no row, and all fields supplied.
ClassroomUpdates ==
    {<<NoneStr, None, None, None, "None">>, <<NoneStr, 0, 0, 0, "False">>,
     <<"", None, None, None, "False">>, <<NoneStr, None, None, None, "True">>,
     <<NoneStr, 1, 1, 1, "True">>}
    \cup {<<NoneStr, id, None, None, "None">> : id \in StoreIds}
    \cup {<<NoneStr, None, id, None, "None">> : id \in StoreIds}
    \cup {<<NoneStr, None, None, id, "None">> : id \in StoreIds}

\* The argument lists update_user is called with.
UserUpdates ==
    {<<"", "", 0, <<>>>>, <<NoneStr, NoneStr, None, <<1>>>>, <<NoneStr, NoneStr, None, <<2>>>>,
     <<NoneStr, NoneStr, 1, <<1>>>>}
    \cup {<<NoneStr, NoneStr, id, <<>>>> : id \in StoreIds}

\* The argument lists update_reservation_request is called with.
RequestUpdates ==
    {<<None, None, <<"alice">>>>, <<None, None, <<"zed">>>>, <<0, 0, <<>>>>}
    \cup {<<id, None, <<>>>> : id \in StoreIds}
    \cup {<<None, id, <<>>>> : id \in StoreIds}

NextStore ==
    \/ /\ Len(buildings) < MaxStoreRows
       /\ create_building("Main", "1 Elm St")
    \/ /\ Len(departments) < MaxStoreRows
       /\ create_department("Physics", "PHY")
    \/ /\ Len(classrooms) < MaxStoreRows
       /\ create_classroom("R1", 1, FALSE)
    \/ /\ Len(users) < MaxStoreRows
       /\ create_user(1, "Ann", "Lee", "alice", FALSE)
    \/ /\ Len(requests) < MaxStoreRows
       /\ create_reservation_request(5, 1, 2, 1, 1, <<>>)
    \/ \E department_id \in 1..MaxStoreRows, new_manager_id \in StoreIds :
          update_department(department_id, NoneStr, "", new_manager_id)
    \/ \E classroom_id \in 1..MaxStoreRows, a \in ClassroomUpdates :
          update_classroom(classroom_id, a[1], a[2], a[3], a[4], a[5])
    \/ \E user_id \in 1..MaxStoreRows, a \in UserUpdates :
          update_user(user_id, a[1], a[2], a[3], a[4])
    \/ \E request_id \in 1..MaxStoreRows, a \in RequestUpdates :
          update_reservation_request(request_id, a[1], a[2], a[3])
    \/ \E request_id \in 1..MaxStoreRows, manager_id \in 1..MaxStoreRows :
          approve_reservation_request(request_id, manager_id)

SpecStore == Init /\ [][NextStore]_vars

\* C11: in every step, a classroom whose is_private is true keeps it true, and a
\* building, department or manager of a classroom, a department of a user and an
\* author or classroom of a request that is not null stays not null.
C11_NoReset ==
    [][/\ \A c \in 1..Len(classrooms) :
              /\ classrooms[c].is_private => classrooms'[c].is_private
              /\ classrooms[c].building_id # None => classrooms'[c].building_id # None
              /\ classrooms[c].department_id # None => classrooms'[c].department_id # None
              /\ classrooms[c].manager_id # None => classrooms'[c].manager_id # None
       /\ \A u \in 1..Len(users) :
              users[u].department_id # None => users'[u].department_id # None
       /\ \A r \in 1..Len(requests) :
              /\ requests[r].author_id # None => requests'[r].author_id # None
              /\ requests[r].classroom_id # None => requests'[r].classroom_id # None]_vars

\* C11 witness: update_classroom has returned from a call that supplied False for
\* is_private and 0 for the building, department and manager of a private
\* classroom with a building and a manager, and the classroom still is private
\* and has both.
C11_Witness ==
    /\ last.op = "update_classroom"
    /\ last.kind = "return"
    /\ last.args = <<NoneStr, 0, 0, 0, "False">>
    /\ last.before.is_private
    /\ last.before.building_id # None
    /\ last.before.manager_id # None
    /\ classrooms[last.id] = last.before

-----------------------------------------------------------------------------
(* SpecFrame: two classrooms and two users, so that an update of one row   *)
(* has another row of the same table beside it.                            *)

NextFrame ==
    \/ /\ Len(buildings) < 1
       /\ create_building("Main", "1 Elm St")
    \/ /\ Len(departments) < 1
       /\ create_department("Physics", "PHY")
    \/ /\ Len(classrooms) < MaxFrameClassrooms
       /\ create_classroom("R1", 1, FALSE)
    \/ \E login \in {"alice", "bob"} :
          /\ Len(users) < MaxFrameUsers
          /\ Len(users) = 0 <=> login = "alice"
          /\ create_user(1, "Ann", "Lee", login, FALSE)
    \/ /\ Len(requests) < 1
       /\ create_reservation_request(5, 1, 2, 1, 1, <<"alice">>)
    \/ update_building(1, NoneStr, "2 Oak St")
    \/ update_department(1, "Maths", NoneStr, None)
    \/ \E classroom_id \in 1..MaxFrameClassrooms,
          a \in {<<"R2", None, None, "None">>, <<NoneStr, 1, 1, "True">>} :
          update_classroom(classroom_id, a[1], a[2], None, a[3], a[4])
    \/ \E user_id \in 1..MaxFrameUsers, a \in {<<1, <<>>>>, <<None, <<1>>>>} :
          update_user(user_id, NoneStr, NoneStr, a[1], a[2])
    \/ update_reservation_request(1, 2, None, <<>>)

SpecFrame == Init /\ [][NextFrame]_vars

\* The rows of a table other than row id are the same in t and in u.
SameExcept(t, u, id) ==
    /\ Len(t) = Len(u)
    /\ \A i \in 1..Len(t) : i # id => t[i] = u[i]

\* Field f of the row changes only if the argument for it was truthy.
OnlyIf(old, new, f, supplied) == new[f] # old[f] => supplied

\* C12: a successful update leaves every other table and every other row of its
\* table as they were, and in its own row (and association rows) changes only
\* fields whose argument was truthy.
C12_OnlySuppliedFieldsChange ==
    [][(last'.kind = "return" /\ last'.op \in UpdateOps)
       => LET id == last'.id
              a == last'.args
              op == last'.op
          IN  /\ op # "update_building" => UNCHANGED buildings
              /\ op # "update_department" => UNCHANGED departments
              /\ op # "update_classroom" => UNCHANGED classrooms
              /\ op # "update_user" => UNCHANGED <<users, user_occupied_classroom_association>>
              /\ op # "update_reservation_request"
                 => UNCHANGED <<requests, user_request_association>>
              /\ op = "update_building"
                 => /\ SameExcept(buildings, buildings', id)
                    /\ OnlyIf(buildings[id], buildings'[id], "name", TruthyStr(a[1]))
                    /\ OnlyIf(buildings[id], buildings'[id], "address", TruthyStr(a[2]))
              /\ op = "update_department"
                 => /\ SameExcept(departments, departments', id)
                    /\ OnlyIf(departments[id], departments'[id], "full_name", TruthyStr(a[1]))
                    /\ OnlyIf(departments[id], departments'[id], "code_name", TruthyStr(a[2]))
                    /\ OnlyIf(departments[id], departments'[id], "manager_id", TruthyInt(a[3]))
              /\ op = "update_classroom"
                 => /\ SameExcept(classrooms, classrooms', id)
                    /\ classrooms'[id].floor = classrooms[id].floor
                    /\ OnlyIf(classrooms[id], classrooms'[id], "name", TruthyStr(a[1]))
                    /\ OnlyIf(classrooms[id], classrooms'[id], "building_id", TruthyInt(a[2]))
                    /\ OnlyIf(classrooms[id], classrooms'[id], "department_id", TruthyInt(a[3]))
                    /\ OnlyIf(classrooms[id], classrooms'[id], "manager_id", TruthyInt(a[4]))
                    /\ OnlyIf(classrooms[id], classrooms'[id], "is_private", TruthyBool(a[5]))
              /\ op = "update_user"
                 => /\ SameExcept(users, users', id)
                    /\ users'[id].login = users[id].login
                    /\ users'[id].is_admin = users[id].is_admin
                    /\ users'[id].registration_date = users[id].registration_date
                    /\ OnlyIf(users[id], users'[id], "first_name", TruthyStr(a[1]))
                    /\ OnlyIf(users[id], users'[id], "last_name", TruthyStr(a[2]))
                    /\ OnlyIf(users[id], users'[id], "department_id", TruthyInt(a[3]))
                    /\ {p \in user_occupied_classroom_association' : p[1] # id}
                           = {p \in user_occupied_classroom_association : p[1] # id}
                    /\ user_occupied_classroom_association' # user_occupied_classroom_association
                       => TruthyList(a[4])
              /\ op = "update_reservation_request"
                 => /\ SameExcept(requests, requests', id)
                    /\ requests'[id].start_date = requests[id].start_date
                    /\ requests'[id].end_date = requests[id].end_date
                    /\ requests'[id].registration_date = requests[id].registration_date
                    /\ requests'[id].is_approved = requests[id].is_approved
                    /\ OnlyIf(requests[id], requests'[id], "author_id", TruthyInt(a[1]))
                    /\ OnlyIf(requests[id], requests'[id], "classroom_id", TruthyInt(a[2]))
                    /\ {p \in user_request_association' : p[2] # id}
                           = {p \in user_request_association : p[2] # id}
                    /\ user_request_association' # user_request_association
                       => TruthyList(a[3])]_vars

\* C12 witness: update_user has given user 1 a department and nothing else, while
\* user 1 occupies a classroom and user 2, with no department, occupies one too.
C12_Witness ==
    /\ last.op = "update_user"
    /\ last.kind = "return"
    /\ last.id = 1
    /\ last.args = <<NoneStr, NoneStr, 1, <<>>>>
    /\ last.before.department_id = None
    /\ users[1].department_id = 1
    /\ Len(users) = 2
    /\ users[2].department_id = None
    /\ user_occupied_classroom_association = {<<1, 1>>, <<2, 1>>}

\* update_department has been called, with no names, for an existing department
\* and with the id of no user as new_manager_id.
ManagerOfNoUserSupplied ==
    /\ last.op = "update_department"
    /\ get_department_by_id(last.id) # None
    /\ ~TruthyStr(last.args[1])
    /\ ~TruthyStr(last.args[2])
    /\ TruthyInt(last.args[3])
    /\ get_user_by_id(last.args[3]) = None

C14_ReferencesResolve ==
    /\ \A c \in 1..Len(classrooms) :
           /\ classrooms[c].building_id # None
              => get_building_by_id(classrooms[c].building_id) # None
           /\ classrooms[c].department_id # None
              => get_department_by_id(classrooms[c].department_id) # None
           /\ classrooms[c].manager_id # None
              => get_user_by_id(classrooms[c].manager_id) # None
    /\ \A r \in 1..Len(requests) :
           /\ requests[r].author_id # None => get_user_by_id(requests[r].author_id) # None
           /\ requests[r].classroom_id # None
              => get_classroom_by_id(requests[r].classroom_id) # None
    /\ \A u \in 1..Len(users) :
           users[u].department_id # None => get_department_by_id(users[u].department_id) # None
    /\ \A p \in user_occupied_classroom_association :
           get_user_by_id(p[1]) # None /\ get_classroom_by_id(p[2]) # None
    /\ \A p \in user_request_association :
           get_user_by_id(p[1]) # None /\ get_request_by_id(p[2]) # None

\* C14 witness: every reference of the classroom, the user and the request is
\* set, and update_classroom has just refused the id of no building.
C14_Witness ==
    /\ last.op = "update_classroom"
    /\ last.kind = "ValueError"
    /\ last.msg = "No building found"
    /\ get_building_by_id(last.args[2]) = None
    /\ Len(users) >= 1
    /\ Len(requests) >= 1
    /\ classrooms[1].building_id = 1
    /\ classrooms[1].department_id = 1
    /\ classrooms[1].manager_id = 1
    /\ users[1].department_id = 1
    /\ requests[1].author_id = 1
    /\ requests[1].classroom_id = 1
    /\ user_occupied_classroom_association = {<<1, 1>>}
    /\ user_request_association = {<<1, 1>>}

-----------------------------------------------------------------------------
(* SpecCheck: every check of AuthenticationService, called for known and   *)
(* unknown logins and ids against a store the services keep writing.       *)

NextCheck ==
    \/ \E login \in AuthLogins :
          /\ Len(users) < MaxAuthUsers
          /\ create_user(1, "Ann", "Lee", login, login = "bob")
    \/ /\ Len(departments) < 1
       /\ create_department("Physics", "PHY")
    \/ /\ Len(classrooms) < 1
       /\ create_classroom("R1", 1, FALSE)
    \/ /\ Len(requests) < 1
       /\ create_reservation_request(1, 1, 2, 1, 1, <<>>)
    \/ update_department(1, NoneStr, NoneStr, 1)
    \/ update_classroom(1, NoneStr, None, 1, 1, "None")
    \/ update_user(1, NoneStr, NoneStr, 1, <<1>>)
    \/ \E name \in CheckNames, login \in AuthLogins \cup {"eve"}, id \in {None, 1, 2} :
          evaluate_check(name, login, id)

SpecCheck == Init /\ [][NextCheck]_vars

C16_ClassroomChecksFollowRelations ==
    \A login \in AuthLogins \cup {"eve"}, classroom_id \in {None, 1, 2} :
        LET user == get_user_by_login(login)
        IN  /\ is_user_classroom_manager(login, classroom_id)
                   = IF user = None THEN Raise("ValueError", "Invalid login.")
                     ELSE Return(/\ get_classroom_by_id(classroom_id) # None
                                 /\ classrooms[classroom_id].manager_id = user)
            /\ is_user_classroom_occupant(login, classroom_id)
                   = IF user = None THEN Raise("ValueError", "Invalid login.")
                     ELSE Return(<<user, classroom_id>> \in user_occupied_classroom_association)

\* Whether the department of the classroom of the request exists and has user as
\* its manager, read off the store.
manages_department_of_request(user, request_id) ==
    LET request == get_request_by_id(request_id)
        classroom == get_classroom_by_id(requests[request].classroom_id)
        department == get_department_by_id(classrooms[classroom].department_id)
    IN  /\ user # None
        /\ request # None
        /\ classroom # None
        /\ department # None
        /\ departments[department].manager_id = user

\* C17: for every login and request id, is_user_department_manager_in_request
\* returns True exactly when the user, the request, the request's classroom and
\* that classroom's department exist and the department's manager_id is the
\* user's id.
C17_DepartmentOfOwnClassroom ==
    \A login \in AuthLogins, request_id \in 1..(MaxAuthRequests + 1) :
        (is_user_department_manager_in_request(login, request_id) = Return(TRUE))
        <=> manages_department_of_request(get_user_by_login(login), request_id)

\* C18: for every caller who exists and is not an admin and every user id, the
\* composite check for writes to another user returns True if the user with that
\* id exists, has a department that exists, and that department's manager_id is
\* the caller's id, and raises the access-denied error otherwise, so also for
\* every user whose department_id is null.
C18_ManagerOfTargetsDepartment ==
    \A login \in AuthLogins, user_id \in ProbeIds :
        LET caller == get_user_by_login(login)
            target == get_user_by_id(user_id)
            department == get_department_by_id(users[target].department_id)
            result == is_user_admin_or_manager_of_another_user_department(login, user_id)
        IN  (caller # None /\ ~users[caller].is_admin)
            => IF /\ target # None
                  /\ department # None
                  /\ departments[department].manager_id = caller
               THEN result = Return(TRUE)
               ELSE result = Raise("ValueError", AccessDeniedDepartment)

\* C18 witness: a caller who is not an admin and manages the department has just
\* been denied for a user whose department_id is null.
C18_Witness ==
    /\ last.op = "is_user_admin_or_manager_of_another_user_department"
    /\ last.kind = "ValueError"
    /\ last.msg = AccessDeniedDepartment
    /\ get_user_by_id(last.id) # None
    /\ users[last.id].department_id = None
    /\ LET caller == get_user_by_login(last.args[1])
       IN  /\ caller # None
           /\ ~users[caller].is_admin
           /\ \E d \in 1..Len(departments) : departments[d].manager_id = caller

\* The name and address building row has, or would have, once the truthy ones of
\* new_name and new_address are written to it.
with_new_values(row, new_name, new_address) ==
    [name |-> IF TruthyStr(new_name) THEN new_name ELSE row.name,
     address |-> IF TruthyStr(new_address) THEN new_address ELSE row.address]

\* C19: an update_building call whose new name and address would make the
\* building equal, in name and address, to another building fails and leaves the
\* buildings as they were (so that no update gives two buildings the same name
\* and the same address).
C19_UpdateKeepsPairsUnique ==
    [][(/\ last'.op = "update_building"
        /\ get_building_by_id(last'.id) # None
        /\ \E b \in 1..Len(buildings) :
               /\ b # last'.id
               /\ buildings[b] = with_new_values(buildings[last'.id],
                                                 last'.args[1], last'.args[2]))
       => (last'.kind # "return" /\ UNCHANGED buildings)]_vars

-----------------------------------------------------------------------------
(* SpecFind: tables that grow from empty, and the five find_all methods.   *)

NextFind ==
    \/ \E name \in {"Main", "Annex"} :
          /\ Len(buildings) < MaxFindRows
          /\ create_building(name, "1 Elm St")
    \/ \E code_name \in {"PHY", "MAT"} :
          /\ Len(departments) < MaxFindRows
          /\ create_department("Physics", code_name)
    \/ /\ Len(classrooms) < MaxFindRows
       /\ create_classroom("R1", 1, FALSE)
    \/ \E login \in {"alice", "bob"} :
          /\ Len(users) < MaxFindRows
          /\ create_user(1, "Ann", "Lee", login, FALSE)
    \/ /\ Len(requests) < MaxFindRows
       /\ create_reservation_request(5, 1, 2, 1, 1, <<"alice">>)
    \/ update_classroom(1, NoneStr, 1, 1, 1, "None")
    \/ find_all_buildings
    \/ find_all_departments
    \/ find_all_classrooms
    \/ find_all_users
    \/ find_all_requests

SpecFind == Init /\ [][NextFind]_vars

FindAllOps == {"find_all_buildings", "find_all_departments", "find_all_classrooms",
               "find_all_users", "find_all_requests"}

\* The outcome a find_all method must have for a table of n rows: the error with
\* its message when n = 0, and otherwise n serializations, among them each of rows.
FindAllOutcome(n, message, rows) ==
    IF n = 0
    THEN last.kind = "ValueError" /\ last.msg = message
    ELSE /\ last.kind = "return"
         /\ Cardinality(last.args[1]) = n
         /\ rows \subseteq last.args[1]

\* C20: a call of a find_all method leaves every table as it was; it raises the
\* "No ... found in the database." error exactly when its table is empty, never
\* returning an empty list, and otherwise returns one serialization for every
\* row of the table.
C20_FindAll ==
    /\ [][last'.op \in FindAllOps => UNCHANGED store]_vars
    /\ [](/\ last.op = "find_all_buildings"
             => FindAllOutcome(Len(buildings), "No buildings found in the database.",
                               {serialize_building(b) : b \in 1..Len(buildings)})
          /\ last.op = "find_all_departments"
             => FindAllOutcome(Len(departments), "No departments found in the database.",
                               {serialize_department(d) : d \in 1..Len(departments)})
          /\ last.op = "find_all_classrooms"
             => FindAllOutcome(Len(classrooms), "No classrooms found in the database.",
                               {serialize_classroom(c) : c \in 1..Len(classrooms)})
          /\ last.op = "find_all_users"
             => FindAllOutcome(Len(users), "No users found in the database.",
                               {serialize_user(u) : u \in 1..Len(users)})
          /\ last.op = "find_all_requests"
             => FindAllOutcome(Len(requests), "No requests found in the database.",
                               {serialize_request(r) : r \in 1..Len(requests)}))

\* C20 witness: find_all_requests has raised on the empty request table while the
\* user table has two rows.
C20_Witness ==
    /\ last.op = "find_all_requests"
    /\ last.kind = "ValueError"
    /\ Len(requests) = 0
    /\ Len(users) = 2

-----------------------------------------------------------------------------
(* SpecRoundTrip: every create method and every find-by-id method.         *)

TripIds == 1..(MaxTripRows + 1)

NextRoundTrip ==
    \/ \E name \in {"Main", "Annex"} :
          /\ Len(buildings) < MaxTripRows
          /\ create_building(name, "1 Elm St")
    \/ \E code_name \in {"PHY", "MAT"} :
          /\ Len(departments) < MaxTripRows
          /\ create_department("Physics", code_name)
    \/ /\ Len(classrooms) < MaxTripRows
       /\ create_classroom("R1", 1, TRUE)
    \/ \E login \in {"alice", "bob"} :
          /\ Len(users) < MaxTripRows
          /\ create_user(1, "Ann", "Lee", login, FALSE)
    \/ /\ Len(requests) < MaxTripRows
       /\ create_reservation_request(5, 1, 2, 1, 1, <<"alice", "bob">>)
    \/ update_classroom(1, NoneStr, 1, 1, 1, "None")
    \/ \E id \in TripIds : find_building(id)
    \/ \E id \in TripIds : find_department(id)
    \/ \E id \in TripIds : find_classroom(id)
    \/ \E id \in TripIds : find_user(id)
    \/ \E id \in TripIds : find_request(id)

SpecRoundTrip == Init /\ [][NextRoundTrip]_vars

\* The find-by-id method of the entity type each create method creates.
FinderOf ==
    [create_building |-> "find_building", create_department |-> "find_department",
     create_classroom |-> "find_classroom", create_user |-> "find_user",
     create_reservation_request |-> "find_request"]

\* C21: when a create method has returned and the very next call is the
\* find-by-id method of the same entity type with the id of the created entity,
\* that call returns a serialization equal to the one the create call returned.
C21_CreateThenFindRoundTrip ==
    [][/\ last.op \in DOMAIN FinderOf
       /\ last.kind = "return"
       /\ last'.op = FinderOf[last.op]
       /\ last'.id = last.id
       => /\ last'.kind = "return"
          /\ last'.args[1] = last.returned]_vars

\* C21 witness: find_request has returned the serialization, with an author, a
\* classroom and two requesting users, of the request created last.
C21_Witness ==
    /\ last.op = "find_request"
    /\ last.kind = "return"
    /\ last.id = Len(requests)
    /\ last.args[1].author # None
    /\ last.args[1].classroom # None
    /\ Cardinality(last.args[1].requesting_users) = 2

-----------------------------------------------------------------------------
(* SpecRoute: HTTP requests arriving one after the other, each handled by  *)
(* the route it names. alice registers as an admin, bob as a plain user,   *)
(* and eve never registers.                                                *)

RouteLogins == {"alice", "bob", "eve"}
RouteIds == 1..(MaxRouteRows + 1)
PostRoutes == {"UserRoute.post", "BuildingRoute.post", "DepartmentCreateRoute.post",
               "ClassroomRoute.post", "RequestRoute.post"}
PutRoutes == {"BuildingIdRoute.put", "DepartmentIdRoute.put", "ClassroomIdRoute.put",
              "UserIdRoute.put", "RequestIdRoute.put", "RequestIdApproveRoute.put"}

NextRoute ==
    \/ \E login \in RouteLogins, route \in PostRoutes : receive(login, route, None)
    \/ \E login \in RouteLogins, route \in PutRoutes, id \in RouteIds : receive(login, route, id)
    \/ \E login \in {"alice", "bob"} :
          /\ Len(users) < MaxRouteUsers
          /\ UserRoute_post(1, "Ann", "Lee", login, login = "alice")
    \/ \E name \in {"Main", NoneStr} :
          /\ Len(buildings) < MaxRouteRows
          /\ BuildingRoute_post(name, "1 Elm St")
    \/ BuildingIdRoute_put(NoneStr, "2 Oak St")
    \/ /\ Len(departments) < MaxRouteRows
       /\ DepartmentCreateRoute_post("Physics", "PHY")
    \/ DepartmentIdRoute_put(NoneStr, NoneStr, 2)
    \/ /\ Len(classrooms) < MaxRouteRows
       /\ ClassroomRoute_post("R1", 1, FALSE)
    \/ ClassroomIdRoute_put(NoneStr, None, 1, None, "None")
    \/ UserIdRoute_put(NoneStr, "Ray", 1, <<>>)
    \/ /\ Len(requests) < MaxRouteRows
       /\ RequestRoute_post(5, 1, 2, 1, 1, <<>>)
    \/ RequestIdRoute_put(2, None, <<>>)
    \/ RequestIdApproveRoute_put(1)

SpecRoute == Init /\ [][NextRoute]_vars

\* C22: whenever the handler of a Building, Department, Classroom, User or
\* Request route has failed, for every payload including one with a required
\* field missing, the response has status 400 and carries a message.
C22_EveryFailureIs400 ==
    Handled /\ last.kind # "return" => response_status = 400 /\ last.msg # ""

\* The routes C23 names, and the check the first line of each one's try block calls.
ProtectedRoutes == PutRoutes \cup {"BuildingRoute.post", "DepartmentCreateRoute.post", "ClassroomRoute.post"}

RouteCheck(route, login, id) ==
    CASE route = "ClassroomIdRoute.put"
             -> is_user_admin_or_manager_of_department_by_classroom(login, id)
      [] route = "UserIdRoute.put"
             -> is_user_admin_or_manager_of_another_user_department(login, id)
      [] route \in {"RequestIdRoute.put", "RequestIdApproveRoute.put"}
             -> is_user_admin_or_manager_in_request(login, id)
      [] OTHER -> is_user_admin(login)

\* The caller of the request in flight is a registered admin.
CallerIsAdmin ==
    /\ get_user_by_login(inflight.login) # None
    /\ users[get_user_by_login(inflight.login)].is_admin

\* C23: in every step in which a handler of a PUT route, or of the POST route for
\* building, department or classroom, runs: the service method is called only if
\* the route's check returned True for the caller in the state the handler
\* started in; if the check raised, the store is unchanged and the call ends
\* with an error; and a write to a building or a department, or the creation of
\* a classroom, happens only for a caller who was an admin in that state.
C23_CheckBeforeMutation ==
    [][/\ Routed(inflight.route)
       /\ inflight.route \in ProtectedRoutes
       /\ last'.op # "receive"
       => LET check == RouteCheck(inflight.route, inflight.login, inflight.id)
          IN  /\ last'.op # inflight.route => check = Return(TRUE)
              /\ store' # store => check = Return(TRUE)
              /\ check.kind # "return" => UNCHANGED store /\ last'.kind # "return"
              /\ (\/ buildings' # buildings
                  \/ departments' # departments
                  \/ Len(classrooms') > Len(classrooms)) => CallerIsAdmin]_vars

\* C23 witness: bob, who is not an admin but manages the department of classroom 1,
\* has updated that classroom through ClassroomIdRoute.put.
C23_Witness ==
    /\ Handled
    /\ inflight.route = "ClassroomIdRoute.put"
    /\ inflight.login = "bob"
    /\ ~CallerIsAdmin
    /\ last.op = "update_classroom"
    /\ last.kind = "return"

\* The routes whose URL id names the row a composite check is about, with the
\* table of that row, the service method the handler calls and the message of
\* its not-found error.
TargetRoutes ==
    [ClassroomIdRoute_put |-> [route |-> "ClassroomIdRoute.put", rows |-> Len(classrooms),
                               op |-> "update_classroom", msg |-> "No classroom found"],
     UserIdRoute_put |-> [route |-> "UserIdRoute.put", rows |-> Len(users),
                          op |-> "update_user", msg |-> "No user found"],
     RequestIdRoute_put |-> [route |-> "RequestIdRoute.put", rows |-> Len(requests),
                             op |-> "update_reservation_request", msg |-> "No request found"],
     RequestIdApproveRoute_put |-> [route |-> "RequestIdApproveRoute.put", rows |-> Len(requests),
                                    op |-> "approve_reservation_request",
                                    msg |-> "No request found"]]

\* C24: for the login of an admin each of the three composite checks returns
\* True for every target id, an id of no row included; and when a handler runs
\* for an admin and an id of no row, the service call fails with the not-found
\* error of its target and the store is unchanged.
C24_AdminPassesForAnyTarget ==
    /\ [](\A login \in RouteLogins, id \in {None} \cup 0..(MaxRouteUsers + 1) :
              is_user_admin(login) = Return(TRUE)
              => /\ is_user_admin_or_manager_of_department_by_classroom(login, id) = Return(TRUE)
                 /\ is_user_admin_or_manager_of_another_user_department(login, id) = Return(TRUE)
                 /\ is_user_admin_or_manager_in_request(login, id) = Return(TRUE))
    /\ [][\A h \in DOMAIN TargetRoutes :
              /\ Routed(TargetRoutes[h].route)
              /\ CallerIsAdmin
              /\ inflight.id \notin 1..TargetRoutes[h].rows
              /\ last'.op # "receive"
              => /\ last'.op = TargetRoutes[h].op
                 /\ last'.kind = "ValueError"
                 /\ last'.msg = TargetRoutes[h].msg
                 /\ UNCHANGED store]_vars

\* C24 witness: the admin alice asked RequestIdApproveRoute.put to approve a
\* request that does not exist, and approve_reservation_request raised not-found.
C24_Witness ==
    /\ Handled
    /\ CallerIsAdmin
    /\ inflight.route = "RequestIdApproveRoute.put"
    /\ get_request_by_id(inflight.id) = None
    /\ last.op = "approve_reservation_request"
    /\ last.msg = "No request found"

-----------------------------------------------------------------------------
\* A create_reservation_request call with these arguments must fail in the
\* store as it is: the dates are invalid, or the author, the classroom or one of
\* the requesting-user logins is missing.
MustFail(start_date, end_date, author_id, classroom_id, logins) ==
    \/ ~(start_date < end_date)
    \/ author_id \notin 1..Len(users)
    \/ classroom_id \notin 1..Len(classrooms)
    \/ \E i \in 1..Len(logins) : \A u \in 1..Len(users) : users[u].login # logins[i]

\* C25: a create_reservation_request call with invalid dates, a missing author,
\* a missing classroom or a missing requesting-user login fails, and a failing
\* call adds no request and changes nothing else in the store.
C25_FailedCreateWritesNothing ==
    [][last'.op = "create_reservation_request"
       => /\ MustFail(last'.args[1], last'.args[2], last'.args[3], last'.args[4], last'.args[5])
             => last'.kind = "ValueError"
          /\ last'.kind # "return" => UNCHANGED store]_vars

\* C25 witness: with a valid author, classroom and dates, the call failed on
\* the second login of its list, and no request is in the store.
C25_Witness ==
    /\ last.op = "create_reservation_request"
    /\ last.msg = "No user found with login"
    /\ last.args[5] = <<"alice", "zed">>
    /\ get_user_by_login("alice") # None
    /\ Len(requests) = 0

\* C26: no step changes the is_admin flag, the login or the id of a user who is
\* in the store: the user table only grows, and every row keeps, at its id, the
\* login and the is_admin flag create_user gave it.
C26_AdminLoginIdFixed ==
    [][/\ Len(users') >= Len(users)
       /\ \A u \in 1..Len(users) :
              /\ users'[u].is_admin = users[u].is_admin
              /\ users'[u].login = users[u].login]_vars

\* C26 witness: update_user has given an admin a new last name and a department,
\* and the user is still an admin.
C26_Witness ==
    /\ last.op = "update_user"
    /\ last.kind = "return"
    /\ users[last.id].is_admin
    /\ users[last.id].last_name = "Ray"
    /\ users[last.id].department_id = 1

-----------------------------------------------------------------------------
(* SpecDepartment: departments, users, and updates that name managers.     *)

NextDepartment ==
    \/ \E full_name \in {"Physics", "Maths"}, code_name \in {"PHY", "MAT"} :
          /\ Len(departments) < MaxDeptDepartments
          /\ create_department(full_name, code_name)
    \/ \E login \in {"alice", "bob"} :
          /\ Len(users) < MaxDeptUsers
          /\ create_user(1, "Ann", "Lee", login, FALSE)
    \/ \E department_id \in 1..(MaxDeptDepartments + 1), new_full_name \in {NoneStr, "Chemistry"},
          new_manager_id \in {None} \cup 0..(MaxDeptUsers + 1) :
          update_department(department_id, new_full_name, NoneStr, new_manager_id)

SpecDepartment == Init /\ [][NextDepartment]_vars

\* C27: in every state no two departments have the same non-null manager_id; an
\* update_department call that names as manager a user who manages another
\* department fails and leaves the manager of its department as it was.
C27_OneDepartmentPerManager ==
    /\ [](\A d1 \in 1..Len(departments), d2 \in 1..Len(departments) :
              d1 # d2 /\ departments[d1].manager_id # None
              => departments[d1].manager_id # departments[d2].manager_id)
    /\ [][/\ last'.op = "update_department"
           /\ last'.id \in 1..Len(departments)
           /\ last'.args[3] \in 1..Len(users)
           /\ (\E d \in 1..Len(departments) :
                  d # last'.id /\ departments[d].manager_id = last'.args[3])
           => /\ last'.kind # "return"
              /\ departments'[last'.id].manager_id = departments[last'.id].manager_id]_vars

\* C27 witness: with department 1 managed by user 1, update_department(2, ...)
\* naming user 1 has failed on the unique column.
C27_Witness ==
    /\ last.op = "update_department"
    /\ last.id = 2
    /\ last.args[3] = 1
    /\ last.kind = "IntegrityError"
    /\ Len(departments) = 2
    /\ departments[1].manager_id = 1
    /\ departments[2].manager_id # 1

-----------------------------------------------------------------------------
-----------------------------------------------------------------------------
(* SpecUserRace: one create_user call that has done its lookup and has not *)
(* committed yet, beside create_user calls that run from lookup to commit. *)

NextUserRace ==
    \/ \E first_name \in {"Ann", "Bea"}, login \in {"alice", "bob"} :
          /\ Len(users) < MaxRaceUsers
          /\ begin_create_user(1, first_name, "Lee", login, FALSE)
    \/ commit_create_user
    \/ \E first_name \in {"Ann", "Bea"}, login \in {"alice", "bob"} :
          /\ Len(users) < MaxRaceUsers
          /\ create_user(2, first_name, "Ray", login, TRUE)

SpecUserRace == Init /\ [][NextUserRace]_vars

\* C29: when two create_user calls with the same login both do their lookup
\* before either commits, no two users share the login afterwards, and the call
\* that creates no user ends with the "already in use" conflict error.
C29_LoserGetsConflictError ==
    /\ [](\A u1 \in 1..Len(users), u2 \in 1..Len(users) :
              u1 # u2 => users[u1].login # users[u2].login)
    /\ [][/\ inflight.pc = "user"
           /\ inflight'.pc = "idle"
           /\ Len(users') = Len(users)
           => last'.kind = "ValueError" /\ last'.msg = "already in use"]_vars

-----------------------------------------------------------------------------
(* SpecClassroomPut: ClassroomIdRoute.put as the two calls it makes, each   *)
(* a transaction of its own, with department updates committed in between. *)

\* ClassroomIdRoute.put up to the return of its authorization check: a raised
\* check ends the call, a passed one leaves the call waiting to update.
ClassroomIdRoute_put_check(login, id) ==
    /\ inflight.pc = "idle"
    /\ last' = Outcome("is_user_admin_or_manager_of_department_by_classroom", id,
                   is_user_admin_or_manager_of_department_by_classroom(login, id),
                   <<login>>)
    /\ inflight' = IF is_user_admin_or_manager_of_department_by_classroom(login, id).kind = "return"
                   THEN [Idle EXCEPT !.pc = "authorized", !.login = login,
                                     !.route = "ClassroomIdRoute.put", !.id = id]
                   ELSE Idle
    /\ UNCHANGED store

\* ClassroomIdRoute.put from its update_classroom call to its return.
ClassroomIdRoute_put_update(new_name, new_department_id) ==
    /\ inflight.pc = "authorized"
    /\ inflight.route = "ClassroomIdRoute.put"
    /\ ClassroomService_update_classroom(inflight.id, new_name, None, new_department_id,
                                         None, "None")
    /\ inflight' = Idle

NextClassroomPut ==
    \/ /\ Len(departments) < 1
       /\ create_department("Physics", "PHY")
    \/ \E login \in {"alice", "bob"} :
          /\ Len(users) < MaxPutUsers
          /\ create_user(1, "Ann", "Lee", login, FALSE)
    \/ /\ Len(classrooms) < 1
       /\ create_classroom("Lab", 1, FALSE)
    \/ update_classroom(1, NoneStr, None, 1, None, "None")
    \/ \E new_manager_id \in 1..MaxPutUsers :
          update_department(1, NoneStr, NoneStr, new_manager_id)
    \/ \E login \in {"alice", "bob"} : ClassroomIdRoute_put_check(login, 1)
    \/ \E new_name \in {NoneStr, "Lab2", "Lab3"}, new_department_id \in {None, 1} :
          ClassroomIdRoute_put_update(new_name, new_department_id)

SpecClassroomPut == Init /\ [][NextClassroomPut]_vars

\* C30: every write that the update step of a classroom PUT commits is made
\* while the caller's check still grants: in the state the write is applied to,
\* the caller is an administrator or the manager of the classroom's department.
C30_AuthorizedWhenWriteApplied ==
    [][/\ inflight.pc = "authorized"
       /\ inflight'.pc = "idle"
       /\ classrooms' # classrooms
       => Grants(is_user_admin_or_manager_of_department_by_classroom(inflight.login,
                                                                     inflight.id))]_vars

====
